---- MODULE Spec2Model ----
(***************************************************************************)
(* Zoning-constrained yield optimizer and multi-scenario comparator of the *)
(* feasibility engine: the R-Code rule table, the geometry calculators,    *)
(* the single-mix optimizer (optimizeYield) and the mixed scenario         *)
(* generator (generateMixedScenarios, in its two variants).                *)
(*                                                                         *)
(* NUMBERS.  The source computes in IEEE doubles.  The model computes in   *)
(* exact integers:                                                         *)
(*   - lot area, lot width and lot depth of a call are whole square metres *)
(*     and whole metres;                                                   *)
(*   - every computed AREA is held in half square metres (value = 2 x the  *)
(*     source's value), because the source's areas are multiples of 0.5    *)
(*     (a 3.5 m driveway, 1.5 m setbacks);                                 *)
(*   - every setback LENGTH is held in half metres;                        *)
(*   - every decimal of the rule table (ratios, parking per dwelling) is   *)
(*     held in hundredths;                                                 *)
(*   - a ratio the source computes by a division is the pair               *)
(*     <<numerator, denominator>>, compared by cross multiplication.       *)
(* For whole lot areas up to 5000 the double comparisons, Math.ceil,       *)
(* Math.floor and Math.round of the source agree with the exact ones.      *)
(***************************************************************************)
EXTENDS Integers, Sequences, FiniteSets, TLC

VARIABLES pc, op, params, totalUnits, bestResult, defIndex, totalTarget,
          bestConfig, bestUtilization, scenarios, result, prev, table

vars == <<pc, op, params, totalUnits, bestResult, defIndex, totalTarget,
          bestConfig, bestUtilization, scenarios, result, prev, table>>

---------------------------------------------------------------------------
(* JavaScript values *)

\* the value null
Null == [kind |-> "null"]

\* the value undefined
Undefined == [kind |-> "undefined"]

\* an exception leaving the called function (TypeError)
Thrown == [kind |-> "throw"]

\* an object that is not a rule: what a lookup on the table finds on
\* Object.prototype (the function Object for 'constructor', ...); none of the
\* rule fields is defined on it
InheritedObject == [kind |-> "inherited"]

\* property names every object literal inherits from Object.prototype
ObjectPrototypeKeys == {"constructor", "toString", "__proto__"}

Min(a, b) == IF a <= b THEN a ELSE b

Max(a, b) == IF a >= b THEN a ELSE b

\* Math.floor(n / d) for d > 0
FloorDiv(n, d) == n \div d

\* Math.ceil(n / d) for d > 0
CeilDiv(n, d) == -((-n) \div d)

\* Math.round(n / d) for d > 0: the nearest integer, halves towards +infinity
RoundDiv(n, d) == (2 * n + d) \div (2 * d)

\* a / b <= h / 100 for the ratio r = <<a, b>>, b > 0
RatioLeq(r, h) == r[1] * 100 <= h * r[2]

\* a / b >= h / 100 for the ratio r = <<a, b>>, b > 0
RatioGeq(r, h) == r[1] * 100 >= h * r[2]

\* r1 > r2 for two ratios with positive denominators
RatioGreater(r1, r2) == r1[1] * r2[2] > r2[1] * r1[2]

---------------------------------------------------------------------------
(* R-Code rule table *)

KnownCodes == {"R20", "R30", "R40", "R60", "R80"}

\* ratios and parking figures in hundredths, setbacks in half metres
R_CODE_RULES ==
  [c \in KnownCodes |->
    CASE c = "R20" ->
           [kind |-> "rules", label |-> "R20", minLotSize |-> 350, avgLotSize |-> 450,
            maxPlotRatio |-> 50, minOpenSpace |-> 50, maxSiteCoverage |-> 50,
            maxStories |-> 2, maxWallHeight |-> 6, maxBuildingHeight |-> 9,
            setbacks |-> [primaryStreet |-> 12, secondaryStreet |-> 3, side |-> 3, rear |-> 12],
            parkingPerDwelling |-> 200, visitorParkingRatio |-> 25]
      [] c = "R30" ->
           [kind |-> "rules", label |-> "R30", minLotSize |-> 260, avgLotSize |-> 300,
            maxPlotRatio |-> 60, minOpenSpace |-> 45, maxSiteCoverage |-> 55,
            maxStories |-> 2, maxWallHeight |-> 6, maxBuildingHeight |-> 9,
            setbacks |-> [primaryStreet |-> 8, secondaryStreet |-> 3, side |-> 2, rear |-> 3],
            parkingPerDwelling |-> 200, visitorParkingRatio |-> 25]
      [] c = "R40" ->
           [kind |-> "rules", label |-> "R40", minLotSize |-> 180, avgLotSize |-> 220,
            maxPlotRatio |-> 60, minOpenSpace |-> 45, maxSiteCoverage |-> 60,
            maxStories |-> 2, maxWallHeight |-> 7, maxBuildingHeight |-> 10,
            setbacks |-> [primaryStreet |-> 8, secondaryStreet |-> 3, side |-> 2, rear |-> 3],
            parkingPerDwelling |-> 150, visitorParkingRatio |-> 25]
      [] c = "R60" ->
           [kind |-> "rules", label |-> "R60", minLotSize |-> 120, avgLotSize |-> 150,
            maxPlotRatio |-> 70, minOpenSpace |-> 40, maxSiteCoverage |-> 65,
            maxStories |-> 3, maxWallHeight |-> 9, maxBuildingHeight |-> 12,
            setbacks |-> [primaryStreet |-> 8, secondaryStreet |-> 3, side |-> 2, rear |-> 3],
            parkingPerDwelling |-> 100, visitorParkingRatio |-> 25]
      [] c = "R80" ->
           [kind |-> "rules", label |-> "R80", minLotSize |-> 100, avgLotSize |-> 120,
            maxPlotRatio |-> 80, minOpenSpace |-> 35, maxSiteCoverage |-> 70,
            maxStories |-> 4, maxWallHeight |-> 12, maxBuildingHeight |-> 15,
            setbacks |-> [primaryStreet |-> 6, secondaryStreet |-> 3, side |-> 2, rear |-> 2],
            parkingPerDwelling |-> 100, visitorParkingRatio |-> 20]]

\* a lookup that finds the R40 entry under the key R80
RuleLookupMisfiled(rCode) ==
  IF rCode = "R80" THEN table["R40"]
  ELSE IF rCode \in DOMAIN table THEN table[rCode]
  ELSE IF rCode \in ObjectPrototypeKeys THEN InheritedObject
  ELSE Undefined

\* R_CODE_RULES[rCode] on the table as it is now: an own property, else what
\* the prototype chain holds under that name, else undefined
RuleLookup(rCode) ==
  IF rCode \in DOMAIN table THEN table[rCode]
  ELSE IF rCode \in ObjectPrototypeKeys THEN InheritedObject
  ELSE Undefined

\* JavaScript truthiness of the values a lookup yields
Truthy(v) == v.kind \notin {"null", "undefined"}

\* whether the object carries the rule fields
IsRules(v) == v.kind = "rules"

getRCodeRules(rCode) ==
  LET found == RuleLookup(rCode)
  IN  IF Truthy(found) THEN found ELSE Null

\* the keys in another order, as after R40 was entered before R30
getAllRCodesReordered == <<"R20", "R40", "R30", "R60", "R80">>

\* Object.keys(R_CODE_RULES): the own keys in insertion order, in a new array
getAllRCodes == <<"R20", "R30", "R40", "R60", "R80">>

\* the plot-ratio cap of one storey alone
PlotRatioCap(lotArea, rules) == (2 * lotArea * rules.maxPlotRatio) \div 100

\* lotArea * rules.maxPlotRatio * rules.maxStories, in half square metres
MaxGFA(lotArea, rules) == (2 * lotArea * rules.maxPlotRatio * rules.maxStories) \div 100

\* areas in half square metres; on an object without rule fields every
\* product is NaN
calculateBuildableArea(lotArea, rCode) ==
  LET rules == getRCodeRules(rCode)
  IN  IF ~Truthy(rules) THEN Null
      ELSE IF ~IsRules(rules) THEN [kind |-> "NaN-area", totalLotArea |-> 2 * lotArea]
      ELSE [kind |-> "area",
            totalLotArea |-> 2 * lotArea,
            maxSiteCoverage |-> (2 * lotArea * rules.maxSiteCoverage) \div 100,
            maxGFA |-> MaxGFA(lotArea, rules),
            minOpenSpaceArea |-> (2 * lotArea * rules.minOpenSpace) \div 100,
            usableBuildArea |-> 2 * lotArea - (2 * lotArea * rules.minOpenSpace) \div 100,
            maxStories |-> rules.maxStories]

\* the area of the clamped dimensions
EnvelopeAreaClamped(effectiveWidth, effectiveDepth) ==
  (Max(0, effectiveWidth) * Max(0, effectiveDepth)) \div 2

\* Math.max(0, effectiveWidth * effectiveDepth), of the dimensions as
\* computed (in half metres), in half square metres
EnvelopeArea(effectiveWidth, effectiveDepth) ==
  Max(0, (effectiveWidth * effectiveDepth) \div 2)

\* lengths in half metres, envelopeArea in half square metres; destructuring
\* rules.setbacks of an object without a setbacks field throws
calculateBuildableEnvelope(lotWidth, lotDepth, rCode) ==
  LET rules == getRCodeRules(rCode)
  IN  IF ~Truthy(rules) THEN Null
      ELSE IF ~IsRules(rules) THEN Thrown
      ELSE LET primaryStreet == rules.setbacks.primaryStreet
               side == rules.setbacks.side
               rear == rules.setbacks.rear
               effectiveWidth == 2 * lotWidth - (side * 2)
               effectiveDepth == 2 * lotDepth - primaryStreet - rear
               envelopeArea == EnvelopeArea(effectiveWidth, effectiveDepth)
           IN  [kind |-> "envelope",
                lotWidth |-> lotWidth,
                lotDepth |-> lotDepth,
                effectiveWidth |-> Max(0, effectiveWidth),
                effectiveDepth |-> Max(0, effectiveDepth),
                envelopeArea |-> envelopeArea,
                setbacks |-> rules.setbacks]

\* parkingArea in square metres (18 per bay); on an object without rule
\* fields the bay counts are NaN
calculateParkingRequirements(numDwellings, rCode) ==
  LET rules == getRCodeRules(rCode)
  IN  IF ~Truthy(rules) THEN Null
      ELSE IF ~IsRules(rules) THEN [kind |-> "NaN-parking"]
      ELSE LET residentBays == CeilDiv(numDwellings * rules.parkingPerDwelling, 100)
               visitorBays == CeilDiv(numDwellings * rules.visitorParkingRatio, 100)
               totalBays == residentBays + visitorBays
           IN  [kind |-> "parking",
                residentBays |-> residentBays,
                visitorBays |-> visitorBays,
                totalBays |-> totalBays,
                parkingArea |-> totalBays * 18]

---------------------------------------------------------------------------
(* Dwelling catalogs, layout and infrastructure *)

Types == <<"2bed", "3bed", "4bed">>

TypeSet == {"2bed", "3bed", "4bed"}

\* yield engine catalog: areas in square metres
DWELLING_TYPES ==
  [t \in TypeSet |->
    CASE t = "2bed" -> [groundFloorArea |-> 55, totalBuildArea |-> 100, internalGarage |-> 18, stories |-> 2]
      [] t = "3bed" -> [groundFloorArea |-> 70, totalBuildArea |-> 145, internalGarage |-> 20, stories |-> 2]
      [] t = "4bed" -> [groundFloorArea |-> 95, totalBuildArea |-> 200, internalGarage |-> 22, stories |-> 2]]

\* scenario generator catalog: areas in square metres, parking in halves of a bay
UNIT_TEMPLATES ==
  [t \in TypeSet |->
    CASE t = "2bed" -> [footprint |-> 55, gfa |-> 100, parking |-> 2]
      [] t = "3bed" -> [footprint |-> 75, gfa |-> 145, parking |-> 3]
      [] t = "4bed" -> [footprint |-> 100, gfa |-> 200, parking |-> 4]]

\* sale prices the optimizer scores a mix with
REVENUE_ESTIMATE ==
  [t \in TypeSet |->
    CASE t = "2bed" -> 450000 [] t = "3bed" -> 620000 [] t = "4bed" -> 780000]

\* the second test made on the depth / width ratio instead of the widths
determineSiteLayoutByRatio(lotWidth, lotDepth) ==
  IF 2 * lotDepth > 5 * lotWidth THEN "battle-axe"
  ELSE IF 5 * lotDepth > 6 * lotWidth THEN "wide-frontage"
  ELSE "standard"

\* lotDepth / lotWidth > 2.5, then lotWidth > lotDepth * 1.2 (lotWidth > 0)
determineSiteLayout(lotWidth, lotDepth) ==
  IF 2 * lotDepth > 5 * lotWidth THEN "battle-axe"
  ELSE IF 5 * lotWidth > 6 * lotDepth THEN "wide-frontage"
  ELSE "standard"

\* areas in half square metres: the driveway is 6 or 3.5 wide, 25 or 15 long
calculateInfrastructureArea(numDwellings, layout) ==
  LET drivewayWidth == IF numDwellings > 3 THEN 12 ELSE 7
      drivewayLength == IF layout = "battle-axe" THEN 25 ELSE 15
      drivewayArea == drivewayWidth * drivewayLength
      turningArea == IF numDwellings > 4 THEN 2 * 50 ELSE 0
      commonLandscaping == 2 * (numDwellings * 8)
  IN  [drivewayArea |-> drivewayArea,
       turningArea |-> turningArea,
       commonLandscaping |-> commonLandscaping,
       totalInfraArea |-> drivewayArea + turningArea + commonLandscaping]

\* the service's own copy of determineSiteLayout
determineSiteLayoutService(lotWidth, lotDepth) ==
  IF 2 * lotDepth > 5 * lotWidth THEN "battle-axe"
  ELSE IF 5 * lotWidth > 6 * lotDepth THEN "wide-frontage"
  ELSE "standard"

\* a copy that drifted: the turning area already from 4 dwellings on
calculateInfrastructureAreaDrifted(numDwellings, layout) ==
  LET infra == calculateInfrastructureArea(numDwellings, layout)
      turningArea == IF numDwellings > 3 THEN 2 * 50 ELSE 0
  IN  [infra EXCEPT !.turningArea = turningArea,
                    !.totalInfraArea = infra.drivewayArea + turningArea + infra.commonLandscaping]

\* the service's own copy of calculateInfrastructureArea, in half square metres
calculateInfrastructureAreaService(numDwellings, layout) ==
  LET drivewayWidth == IF numDwellings > 3 THEN 12 ELSE 7
      drivewayLength == IF layout = "battle-axe" THEN 25 ELSE 15
      drivewayArea == drivewayWidth * drivewayLength
      turningArea == IF numDwellings > 4 THEN 2 * 50 ELSE 0
      commonLandscaping == 2 * (numDwellings * 8)
  IN  [drivewayArea |-> drivewayArea,
       turningArea |-> turningArea,
       commonLandscaping |-> commonLandscaping,
       totalInfraArea |-> drivewayArea + turningArea + commonLandscaping]

Mix(twoBed, threeBed, fourBed) ==
  [t \in TypeSet |->
    CASE t = "2bed" -> twoBed [] t = "3bed" -> threeBed [] t = "4bed" -> fourBed]

\* the inner loop stopping one short: threeBed < totalUnits - fourBed
MixesOfFourBedShort(total, fourBed) ==
  [i \in 1..(total - fourBed) |-> Mix(total - fourBed - (i - 1), i - 1, fourBed)]

\* the mixes of one 4-bed count, 3-bed count ascending
MixesOfFourBed(total, fourBed) ==
  [i \in 1..(total - fourBed + 1) |-> Mix(total - fourBed - (i - 1), i - 1, fourBed)]

RECURSIVE MixesFrom(_, _)
MixesFrom(total, fourBed) ==
  IF fourBed > Min(total, (total * 3) \div 10) THEN <<>>
  ELSE MixesOfFourBed(total, fourBed) \o MixesFrom(total, fourBed + 1)

\* the list of mixes of one total, in the order the loops push them
\* (lotWidth and rules are parameters the source never reads)
generateMixes(total, lotWidth, rules) == MixesFrom(total, 0)

\* the compliant flag with the open-space check left out
CompliantFlagNoOpenSpace(plotRatioOk, siteCoverageOk, openSpaceOk, fitsInEnvelope) ==
  plotRatioOk /\ siteCoverageOk

\* the compliant flag with the envelope fit as a fourth condition
CompliantFlagWithEnvelope(plotRatioOk, siteCoverageOk, openSpaceOk, fitsInEnvelope) ==
  plotRatioOk /\ siteCoverageOk /\ openSpaceOk /\ fitsInEnvelope

\* the compliant flag of a configuration
CompliantFlag(plotRatioOk, siteCoverageOk, openSpaceOk, fitsInEnvelope) ==
  plotRatioOk /\ siteCoverageOk /\ openSpaceOk

\* open space as what the buildings alone leave free: 15 square metres less
OpenSpaceOfBuildings(lotArea, totalCoverage) == 2 * lotArea - totalCoverage - 2 * 15

\* lotArea - totalCoverage, in half square metres
OpenSpace(lotArea, totalCoverage) == 2 * lotArea - totalCoverage

\* areas in half square metres
evaluateMix(mix, lotArea, lotWidth, lotDepth, rules, layout, envelope) ==
  LET units == mix["2bed"] + mix["3bed"] + mix["4bed"]
      estimatedRevenue == mix["2bed"] * REVENUE_ESTIMATE["2bed"]
                          + mix["3bed"] * REVENUE_ESTIMATE["3bed"]
                          + mix["4bed"] * REVENUE_ESTIMATE["4bed"]
      totalGFA == 2 * (mix["2bed"] * DWELLING_TYPES["2bed"].totalBuildArea
                       + mix["3bed"] * DWELLING_TYPES["3bed"].totalBuildArea
                       + mix["4bed"] * DWELLING_TYPES["4bed"].totalBuildArea)
      totalFootprint == 2 * (mix["2bed"] * DWELLING_TYPES["2bed"].groundFloorArea
                             + mix["3bed"] * DWELLING_TYPES["3bed"].groundFloorArea
                             + mix["4bed"] * DWELLING_TYPES["4bed"].groundFloorArea)
      infra == calculateInfrastructureArea(units, layout)
      parking == calculateParkingRequirements(units, rules.label)
      externalParkingArea == 2 * (parking.visitorBays * 15)
      totalCoverage == totalFootprint + infra.totalInfraArea + externalParkingArea
      openSpace == OpenSpace(lotArea, totalCoverage)
      plotRatio == <<totalGFA, 2 * lotArea>>
      siteCoverageRatio == <<totalCoverage, 2 * lotArea>>
      openSpaceRatio == <<openSpace, 2 * lotArea>>
      plotRatioOk == RatioLeq(plotRatio, rules.maxPlotRatio)
      siteCoverageOk == RatioLeq(siteCoverageRatio, rules.maxSiteCoverage)
      openSpaceOk == RatioGeq(openSpaceRatio, rules.minOpenSpace)
      fitsInEnvelope == totalCoverage <= envelope.envelopeArea + infra.totalInfraArea
  IN  IF units = 0
      THEN [kind |-> "evaluation", compliant |-> FALSE, totalUnits |-> 0, estimatedRevenue |-> 0]
      ELSE [kind |-> "evaluation",
            mix |-> mix,
            totalUnits |-> units,
            totalGFA |-> totalGFA,
            totalFootprint |-> totalFootprint,
            estimatedRevenue |-> estimatedRevenue,
            infrastructure |-> infra,
            parking |-> parking,
            totalCoverage |-> totalCoverage,
            openSpace |-> openSpace,
            plotRatio |-> plotRatio,
            siteCoverageRatio |-> siteCoverageRatio,
            openSpaceRatio |-> openSpaceRatio,
            compliant |-> CompliantFlag(plotRatioOk, siteCoverageOk, openSpaceOk, fitsInEnvelope),
            compliance |-> [plotRatio |-> plotRatioOk,
                            siteCoverage |-> siteCoverageOk,
                            openSpace |-> openSpaceOk,
                            envelope |-> fitsInEnvelope]]

\* every compliant evaluation replaces the best one: the score is not compared
ReplacesAny(evaluation, best) == TRUE

\* whether a compliant evaluation replaces the best one so far
Replaces(evaluation, best) ==
  LET score == evaluation.estimatedRevenue
      bestScore == IF Truthy(best) THEN best.estimatedRevenue ELSE 0
  IN  ~Truthy(best) \/ score > bestScore

\* the body of the inner loop of optimizeYield for one mix: the best result
\* after it
ConsiderMix(mix, best, p, layout, envelope) ==
  LET evaluation == evaluateMix(mix, p.lotArea, p.lotWidth, p.lotDepth,
                                getRCodeRules(p.rCode), layout, envelope)
  IN  IF evaluation.compliant /\ Replaces(evaluation, best) THEN evaluation ELSE best

\* the inner loop of optimizeYield over mixes[lo..hi], in list order (the
\* range is split in two, and the first half is evaluated before the second
\* is entered, to keep the evaluation shallow)
RECURSIVE ScanMixes(_, _, _, _, _, _, _)
ScanMixes(mixes, lo, hi, best, p, layout, envelope) ==
  IF lo > hi THEN best
  ELSE IF lo = hi THEN ConsiderMix(mixes[lo], best, p, layout, envelope)
  ELSE LET firstHalf == ScanMixes(mixes, lo, (lo + hi) \div 2, best, p, layout, envelope)
       IN  IF firstHalf.kind = "null"
           THEN ScanMixes(mixes, (lo + hi) \div 2 + 1, hi, Null, p, layout, envelope)
           ELSE ScanMixes(mixes, (lo + hi) \div 2 + 1, hi, firstHalf, p, layout, envelope)

\* the loop of optimizeYield over totalUnits from total on: the best result
\* after it
RECURSIVE SearchFrom(_, _, _)
SearchFrom(total, best, p) ==
  IF total > 20 THEN best
  ELSE LET mixes == generateMixes(total, p.lotWidth, getRCodeRules(p.rCode))
           found == ScanMixes(mixes, 1, Len(mixes), best, p,
                              determineSiteLayout(p.lotWidth, p.lotDepth),
                              calculateBuildableEnvelope(p.lotWidth, p.lotDepth, p.rCode))
       IN  IF found.kind = "null" THEN SearchFrom(total + 1, Null, p)
           ELSE SearchFrom(total + 1, found, p)

\* the evaluation optimizeYield returns for a known code: the best result of
\* the loop, or the evaluation of one 2-bed unit
optimizeYield(p) ==
  LET best == SearchFrom(1, Null, p)
  IN  IF ~Truthy(best)
      THEN evaluateMix(Mix(1, 0, 0), p.lotArea, p.lotWidth, p.lotDepth, getRCodeRules(p.rCode),
                       determineSiteLayout(p.lotWidth, p.lotDepth),
                       calculateBuildableEnvelope(p.lotWidth, p.lotDepth, p.rCode))
      ELSE best

---------------------------------------------------------------------------
(* Scenario catalog and the per-trial computations of calculateMixedConfig *)

\* target ratios in hundredths
SCENARIO_DEFINITIONS ==
  << [name |-> "Balanced Affordable", ratios |-> Mix(50, 50, 0), riskLevel |-> "LOW"],
     [name |-> "3-Bed Dominant", ratios |-> Mix(30, 70, 0), riskLevel |-> "LOW"],
     [name |-> "Balanced Premium", ratios |-> Mix(0, 50, 50), riskLevel |-> "MEDIUM"],
     [name |-> "4-Bed Dominant", ratios |-> Mix(0, 30, 70), riskLevel |-> "MEDIUM-HIGH"],
     [name |-> "Diversified Mix", ratios |-> Mix(30, 40, 30), riskLevel |-> "LOW"],
     [name |-> "Entry-Level Focus", ratios |-> Mix(60, 40, 0), riskLevel |-> "LOW"],
     [name |-> "Mainstream Focus", ratios |-> Mix(20, 60, 20), riskLevel |-> "LOW"] >>

\* the optimizer's reference prices in the place of the defaults
ReferencePricesAsDefault == REVENUE_ESTIMATE

\* default sale prices of the scenario generator
DefaultPrices ==
  [t \in TypeSet |->
    CASE t = "2bed" -> 550000 [] t = "3bed" -> 650000 [] t = "4bed" -> 780000]

\* Object.keys(ratios).filter(k => ratios[k] > 0), in key order
NonZeroTypes(ratios) == SelectSeq(Types, LAMBDA k : ratios[k] > 0)

\* Math.floor in the place of Math.round
FlooredShare(target, ratios, type) == (target * ratios[type]) \div 100

\* Math.round(totalTarget * ratios[type])
RoundedShare(target, ratios, type) == RoundDiv(target * ratios[type], 100)

RECURSIVE AssignedBefore(_, _, _, _)
\* the sum of the rounded shares of the first i types
AssignedBefore(target, ratios, types, i) ==
  IF i = 0 THEN 0
  ELSE RoundedShare(target, ratios, types[i]) + AssignedBefore(target, ratios, types, i - 1)

\* the count a type gets before the minimum of 1 is forced
RawCount(target, ratios, type) ==
  LET types == NonZeroTypes(ratios)
  IN  IF type = types[Len(types)]
      THEN target - AssignedBefore(target, ratios, types, Len(types) - 1)
      ELSE RoundedShare(target, ratios, type)

\* the counts without the minimum of 1
DeriveCountsUnforced(target, ratios) ==
  [t \in TypeSet |-> IF ratios[t] > 0 THEN RawCount(target, ratios, t) ELSE 0]

\* the counts of one trial: rounding, remainder to the last type, at least 1
\* for every type of the definition, 0 for the others
DeriveCounts(target, ratios) ==
  [t \in TypeSet |->
    IF ratios[t] > 0
    THEN (IF RawCount(target, ratios, t) < 1 THEN 1 ELSE RawCount(target, ratios, t))
    ELSE 0]

\* the totals of a trial over the unit templates: areas in half square metres,
\* parking in halves of a bay
TrialTotals(counts) ==
  [actualTotal |-> counts["2bed"] + counts["3bed"] + counts["4bed"],
   totalFootprint |-> 2 * (counts["2bed"] * UNIT_TEMPLATES["2bed"].footprint
                           + counts["3bed"] * UNIT_TEMPLATES["3bed"].footprint
                           + counts["4bed"] * UNIT_TEMPLATES["4bed"].footprint),
   totalGFA |-> 2 * (counts["2bed"] * UNIT_TEMPLATES["2bed"].gfa
                     + counts["3bed"] * UNIT_TEMPLATES["3bed"].gfa
                     + counts["4bed"] * UNIT_TEMPLATES["4bed"].gfa),
   totalParking |-> counts["2bed"] * UNIT_TEMPLATES["2bed"].parking
                    + counts["3bed"] * UNIT_TEMPLATES["3bed"].parking
                    + counts["4bed"] * UNIT_TEMPLATES["4bed"].parking]

\* the lot-size comparison the wrong way round
MinLotSizeFlipped(lotArea, actualTotal, rules) == lotArea <= rules.minLotSize * actualTotal

\* lotArea / actualTotal >= rules.minLotSize
MinLotSizeOk(lotArea, actualTotal, rules) == lotArea >= rules.minLotSize * actualTotal

\* the compliance test with the lot-size check left out
PassesComplianceNoLotSize(plotRatioOk, siteCoverageOk, openSpaceOk, minLotSizeOk) ==
  ~(~plotRatioOk \/ ~siteCoverageOk \/ ~openSpaceOk)

\* the compliance test with the plot-ratio check left out
PassesComplianceNoPlotRatio(plotRatioOk, siteCoverageOk, openSpaceOk, minLotSizeOk) ==
  ~(~siteCoverageOk \/ ~openSpaceOk \/ ~minLotSizeOk)

\* whether a trial of the full-compliance search goes on to the utilization
\* comparison (on an object without rule fields every comparison is false)
PassesCompliance(plotRatioOk, siteCoverageOk, openSpaceOk, minLotSizeOk) ==
  ~(~plotRatioOk \/ ~siteCoverageOk \/ ~openSpaceOk \/ ~minLotSizeOk)

\* one trial of the full-compliance calculateMixedConfig; lot areas are
\* multiples of 5, so maxGFA is a whole number of half square metres
FullTrial(target, lotArea, lotWidth, lotDepth, rules, ratios) ==
  LET counts == DeriveCounts(target, ratios)
      totals == TrialTotals(counts)
      actualTotal == totals.actualTotal
      layout == determineSiteLayoutService(lotWidth, lotDepth)
      maxGFA == (2 * lotArea * rules.maxPlotRatio) \div 100
      infra == calculateInfrastructureAreaService(actualTotal, layout)
      parking == calculateParkingRequirements(actualTotal, rules.label)
      visitorParkingArea == IF Truthy(parking) THEN 2 * (parking.visitorBays * 15) ELSE 0
      totalCoverage == totals.totalFootprint + infra.totalInfraArea + visitorParkingArea
      openSpace == 2 * lotArea - totalCoverage
      plotRatio == <<totals.totalGFA, 2 * lotArea>>
      siteCoverageRatio == <<totalCoverage, 2 * lotArea>>
      openSpaceRatio == <<openSpace, 2 * lotArea>>
      lotSizePerUnit == <<lotArea, actualTotal>>
      utilization == <<totals.totalGFA, maxGFA>>
  IN  IF ~IsRules(rules) THEN [passes |-> FALSE]
      ELSE [passes |-> PassesCompliance(RatioLeq(plotRatio, rules.maxPlotRatio),
                                        RatioLeq(siteCoverageRatio, rules.maxSiteCoverage),
                                        RatioGeq(openSpaceRatio, rules.minOpenSpace),
                                        MinLotSizeOk(lotArea, actualTotal, rules)),
            plotRatioOk |-> RatioLeq(plotRatio, rules.maxPlotRatio),
            siteCoverageOk |-> RatioLeq(siteCoverageRatio, rules.maxSiteCoverage),
            openSpaceOk |-> RatioGeq(openSpaceRatio, rules.minOpenSpace),
            minLotSizeOk |-> MinLotSizeOk(lotArea, actualTotal, rules),
            siteCoverageRatio |-> siteCoverageRatio,
            openSpaceRatio |-> openSpaceRatio,
            utilization |-> utilization,
            config |->
              [kind |-> "config",
               counts |-> counts,
               totalUnits |-> actualTotal,
               totalFootprint |-> RoundDiv(totals.totalFootprint, 2),
               totalGFA |-> RoundDiv(totals.totalGFA, 2),
               totalParking |-> CeilDiv(totals.totalParking, 2),
               utilization |-> RoundDiv(100 * utilization[1], utilization[2]),
               infrastructure |-> infra,
               visitorParkingArea |-> visitorParkingArea,
               totalCoverage |-> RoundDiv(totalCoverage, 2),
               openSpace |-> RoundDiv(openSpace, 2),
               parking |-> parking,
               compliance |->
                 [plotRatio |-> RoundDiv(1000 * plotRatio[1], plotRatio[2]),
                  siteCoverageRatio |-> RoundDiv(1000 * siteCoverageRatio[1], siteCoverageRatio[2]),
                  openSpaceRatio |-> RoundDiv(1000 * openSpaceRatio[1], openSpaceRatio[2]),
                  lotSizePerUnit |-> RoundDiv(lotArea, actualTotal)]]]

\* whether a trial of the basic ceiling search goes on to the utilization
\* comparison: the footprint and GFA ceilings, then the utilization band
PassesCeilings(totalFootprint, totalGFA, maxFootprint, maxGFA) ==
  /\ ~(totalFootprint > maxFootprint)
  /\ ~(totalGFA > maxGFA)
  /\ ~(totalGFA * 100 < 50 * maxGFA \/ totalGFA * 100 > 95 * maxGFA)

\* one trial of the basic calculateMixedConfig(maxFootprint, maxGFA, ...)
BasicTrial(target, maxFootprint, maxGFA, ratios) ==
  LET counts == DeriveCounts(target, ratios)
      totals == TrialTotals(counts)
      utilization == <<totals.totalGFA, maxGFA>>
  IN  [passes |-> PassesCeilings(totals.totalFootprint, totals.totalGFA, maxFootprint, maxGFA),
       utilization |-> utilization,
       config |->
         [kind |-> "config",
          counts |-> counts,
          totalUnits |-> totals.actualTotal,
          totalFootprint |-> RoundDiv(totals.totalFootprint, 2),
          totalGFA |-> RoundDiv(totals.totalGFA, 2),
          totalParking |-> CeilDiv(totals.totalParking, 2),
          utilization |-> RoundDiv(100 * utilization[1], utilization[2])]]

\* the utilization comparison the wrong way round
PrefersLowerTrial(utilization, best) == RatioGreater(best, utilization)

\* whether a passing trial becomes the best configuration
PrefersTrial(utilization, best) == RatioGreater(utilization, best)

---------------------------------------------------------------------------
(* Prices and createScenario *)

\* a number as a property value
Num(n) == [kind |-> "number", value |-> n]

\* marketData?.prices || defaultPrices: the defaults without market data and
\* for market data without a prices property
PricesOf(marketData) ==
  IF Truthy(marketData) /\ "prices" \in DOMAIN marketData THEN marketData.prices
  ELSE [t \in TypeSet |-> Num(DefaultPrices[t])]

\* prices[type] || <default of the type>: a missing or zero price is falsy
PriceOf(prices, type) ==
  IF prices[type].kind = "number" /\ prices[type].value # 0
  THEN prices[type].value ELSE DefaultPrices[type]

\* the entry of mixBreakdown of one type
BreakdownEntry(counts, units, type) ==
  [type |-> type,
   units |-> counts[type],
   percentage |-> RoundDiv(counts[type] * 100, units),
   footprint |-> counts[type] * UNIT_TEMPLATES[type].footprint,
   gfa |-> counts[type] * UNIT_TEMPLATES[type].gfa]

\* createScenario of the full-compliance variant; areas in square metres,
\* ratios in thousandths, limits in hundredths
createScenario(definition, config, prices, lotArea, rules) ==
  LET counts == config.counts
      present == SelectSeq(Types, LAMBDA t : counts[t] > 0)
  IN  [name |-> definition.name,
       riskLevel |-> definition.riskLevel,
       mix |-> counts,
       mixBreakdown |-> [i \in 1..Len(present) |-> BreakdownEntry(counts, config.totalUnits, present[i])],
       totalUnits |-> config.totalUnits,
       totalFootprint |-> config.totalFootprint,
       totalGFA |-> config.totalGFA,
       totalParking |-> config.totalParking,
       utilization |-> config.utilization,
       estimatedGRV |-> counts["2bed"] * PriceOf(prices, "2bed")
                        + counts["3bed"] * PriceOf(prices, "3bed")
                        + counts["4bed"] * PriceOf(prices, "4bed"),
       plotRatio |-> config.compliance.plotRatio,
       siteCoverageRatio |-> config.compliance.siteCoverageRatio,
       openSpaceRatio |-> config.compliance.openSpaceRatio,
       infrastructure |-> config.infrastructure,
       visitorParkingArea |-> config.visitorParkingArea,
       totalCoverage |-> config.totalCoverage,
       openSpace |-> config.openSpace,
       parking |-> config.parking,
       compliance |-> [plotRatio |-> config.compliance.plotRatio,
                       siteCoverageRatio |-> config.compliance.siteCoverageRatio,
                       openSpaceRatio |-> config.compliance.openSpaceRatio,
                       lotSizePerUnit |-> config.compliance.lotSizePerUnit,
                       maxPlotRatio |-> rules.maxPlotRatio,
                       maxSiteCoverage |-> rules.maxSiteCoverage,
                       minOpenSpace |-> rules.minOpenSpace,
                       minLotSize |-> rules.minLotSize]]

\* createScenario of the basic variant; plotRatio = totalGFA / lotArea
createScenarioBasic(definition, config, prices, lotArea) ==
  LET counts == config.counts
      present == SelectSeq(Types, LAMBDA t : counts[t] > 0)
  IN  [name |-> definition.name,
       riskLevel |-> definition.riskLevel,
       mix |-> counts,
       mixBreakdown |-> [i \in 1..Len(present) |-> BreakdownEntry(counts, config.totalUnits, present[i])],
       totalUnits |-> config.totalUnits,
       totalFootprint |-> config.totalFootprint,
       totalGFA |-> config.totalGFA,
       totalParking |-> config.totalParking,
       utilization |-> config.utilization,
       estimatedGRV |-> counts["2bed"] * PriceOf(prices, "2bed")
                        + counts["3bed"] * PriceOf(prices, "3bed")
                        + counts["4bed"] * PriceOf(prices, "4bed"),
       plotRatio |-> <<config.totalGFA, lotArea>>]

\* the layout description: one of three templates, filled with the unit count
getLayoutDescription(layout, evaluation) ==
  [template |-> IF layout \in {"battle-axe", "wide-frontage"} THEN layout ELSE "standard",
   totalUnits |-> evaluation.totalUnits,
   driveway |-> IF evaluation.totalUnits > 3 THEN "central" ELSE "side"]

---------------------------------------------------------------------------
(* Inputs of the calls *)

\* the number of lot areas of the model: 100, 200, ... square metres
MaxAreaSteps == 24

\* the largest dwelling count handed to calculateParkingRequirements
MaxDwellings == 24

\* the longest lot side handed to determineSiteLayout on its own
MaxLotSide == 12

LotSides == 1..MaxLotSide

\* the values determineSiteLayout returns
Layouts == {"battle-axe", "wide-frontage", "standard"}

\* the number of assignments the caller makes to objects it was handed
MaxWrites == 2

LotAreas == {100 * k : k \in 1..MaxAreaSteps}

\* width and depth: a standard lot, a battle-axe lot, a wide-frontage lot
LotShapes == {<<20, 40>>, <<10, 30>>, <<30, 20>>}

\* width and depth handed to calculateBuildableEnvelope: the lot shapes, and
\* lots narrower or shallower than the setbacks
EnvelopeShapes ==
  LotShapes \cup {<<w, d>> : w \in {1, 2, 3, 20}, d \in {3, 8, 12, 40}}

\* a long, narrow lot of 3 x 200 = 600 square metres, whose envelope is 1 m wide
NarrowLot == [lotArea |-> 600, lotWidth |-> 3, lotDepth |-> 200]

\* a lot of 23 x 45 = 1035 square metres, between two of the areas above
OffGridLot == [lotArea |-> 1035, lotWidth |-> 23, lotDepth |-> 45]

Lots ==
  {[lotArea |-> a, lotWidth |-> s[1], lotDepth |-> s[2]] : a \in LotAreas, s \in LotShapes}
    \cup {NarrowLot, OffGridLot}

\* codes that are not in the table; "undefined" is the key a missing code
\* becomes
UnknownCodes == {"R99", "R50", "", "undefined", "constructor"}

\* the lots the unknown codes are tried with
UnknownCodeLots == {l \in Lots : l.lotArea = 800}

\* no market data, and market data with a price, a missing price and a zero price
MarketDataChoices ==
  {Null,
   [kind |-> "marketData",
    prices |-> [t \in TypeSet |->
                 CASE t = "2bed" -> Num(500000) [] t = "3bed" -> Undefined [] t = "4bed" -> Num(0)]]}

\* market data without a prices property, and market data with all three prices
FurtherMarketData ==
  {[kind |-> "marketData"],
   [kind |-> "marketData",
    prices |-> [t \in TypeSet |->
                 CASE t = "2bed" -> Num(400000) [] t = "3bed" -> Num(600000) [] t = "4bed" -> Num(900000)]]}

Property(lot, code) ==
  [lotArea |-> lot.lotArea, lotWidth |-> lot.lotWidth, lotDepth |-> lot.lotDepth, rCode |-> code]

\* the lot and code of a call
Properties ==
  {Property(l, c) : l \in Lots, c \in KnownCodes}
    \cup {Property(l, c) : l \in UnknownCodeLots, c \in UnknownCodes}

\* the lots and codes of the repeated calls
RepeatedProperties ==
  {Property([lotArea |-> 800, lotWidth |-> 20, lotDepth |-> 40], "R60"),
   Property([lotArea |-> 200, lotWidth |-> 10, lotDepth |-> 30], "R20"),
   Property([lotArea |-> 800, lotWidth |-> 30, lotDepth |-> 20], "R99")}


\* a request to the scenario generator: the property and the market data
Request(property, marketData) == [property |-> property, marketData |-> marketData]

\* the lots the further market data is tried with
PricedLots == {l \in Lots : l.lotWidth = 20 /\ l.lotArea \in {800, 1600}}

\* every property without market data, the 20 x 40 lots also with market
\* data, two of them with the further market data
ScenarioRequests ==
  {Request(p, Null) : p \in Properties}
    \cup {Request(p, m) : p \in {q \in Properties : q.lotWidth = 20}, m \in MarketDataChoices}
    \cup {Request(Property(l, c), m) : l \in PricedLots, c \in KnownCodes, m \in FurtherMarketData}

\* the basic variant reads the lot area and the code alone
BasicRequests == {Request(p, Null) : p \in {q \in Properties : q.lotWidth = 20}}

\* the properties and requests of the termination check
LiveProperties ==
  {p \in Properties : p.lotArea \in {200, 800, 100 * MaxAreaSteps}}

LiveRequests == {Request(p, Null) : p \in LiveProperties}

\* the repeated calls of the scenario generator: every repeated property
\* without market data, the 800 sqm lot under R60 with every market data
RepeatedRequests ==
  {Request(p, Null) : p \in RepeatedProperties}
    \cup {Request(Property([lotArea |-> 800, lotWidth |-> 20, lotDepth |-> 40], "R60"), m) :
            m \in MarketDataChoices \cup FurtherMarketData}

---------------------------------------------------------------------------
(* State *)

\* bestResult kept from the call before, as a variable outside the function
\* would be
StaleBestResult == bestResult

\* let bestResult = null
FreshBestResult == Null

\* let bestConfig = null; let bestUtilization = 0
FreshBestConfig == [config |-> Null, utilization |-> <<0, 1>>]

\* the bounds of the three searches
MaxTotalUnits == 20

FullFirstTarget == 2

FullLastTarget == 20

BasicFirstTarget == 4

BasicLastTarget == 20

\* a loop that forgets its increment
SameTotalUnits(total) == total

\* totalUnits++
NextTotalUnits(total) == total + 1

\* a fallback of no unit at all
EmptyFallbackMix == Mix(0, 0, 0)

\* a fallback of one 3-bed unit
FallbackMixThreeBed == Mix(0, 1, 0)

\* the mix of the fallback: one 2-bed unit
FallbackMix == Mix(1, 0, 0)

\* the scenario put at the front of the list
UnshiftScenario(list, scenario) == <<scenario>> \o list

\* a scenario kept only from a revenue of 2.5 million on
PushScenarioOfRevenue(list, scenario) ==
  IF scenario.estimatedGRV >= 2500000 THEN Append(list, scenario) ELSE list

\* scenarios.push(scenario)
PushScenario(list, scenario) == Append(list, scenario)

\* a list of scenarios as a returned value
ScenarioList(list) == [kind |-> "scenarios", list |-> list]

Init ==
  /\ pc = "idle"
  /\ op = "none"
  /\ params = Null
  /\ totalUnits = 0
  /\ bestResult = Null
  /\ defIndex = 0
  /\ totalTarget = 0
  /\ bestConfig = Null
  /\ bestUtilization = <<0, 1>>
  /\ scenarios = <<>>
  /\ result = Null
  /\ prev = Null
  /\ table = R_CODE_RULES

optimizerVars == <<totalUnits, bestResult>>

comparatorVars == <<defIndex, totalTarget, bestConfig, bestUtilization, scenarios>>

---------------------------------------------------------------------------
(* The calculators, each one call *)

CallGetRCodeRules ==
  /\ pc = "idle"
  /\ \E c \in KnownCodes \cup UnknownCodes :
       /\ params' = [rCode |-> c]
       /\ result' = getRCodeRules(c)
  /\ op' = "getRCodeRules"
  /\ pc' = "done"
  /\ UNCHANGED <<optimizerVars, comparatorVars, prev, table>>

CallGetAllRCodes ==
  /\ pc = "idle"
  /\ params' = Null
  /\ result' = [kind |-> "codes", list |-> getAllRCodes]
  /\ op' = "getAllRCodes"
  /\ pc' = "done"
  /\ UNCHANGED <<optimizerVars, comparatorVars, prev, table>>

CallCalculateBuildableArea ==
  /\ pc = "idle"
  /\ \E a \in LotAreas, c \in KnownCodes \cup UnknownCodes :
       /\ params' = [lotArea |-> a, rCode |-> c]
       /\ result' = calculateBuildableArea(a, c)
  /\ op' = "calculateBuildableArea"
  /\ pc' = "done"
  /\ UNCHANGED <<optimizerVars, comparatorVars, prev, table>>

CallCalculateBuildableEnvelope ==
  /\ pc = "idle"
  /\ \E s \in EnvelopeShapes, c \in KnownCodes \cup UnknownCodes :
       /\ params' = [lotWidth |-> s[1], lotDepth |-> s[2], rCode |-> c]
       /\ result' = calculateBuildableEnvelope(s[1], s[2], c)
  /\ op' = "calculateBuildableEnvelope"
  /\ pc' = "done"
  /\ UNCHANGED <<optimizerVars, comparatorVars, prev, table>>

CallCalculateParkingRequirements ==
  /\ pc = "idle"
  /\ \E n \in 0..MaxDwellings, c \in KnownCodes \cup UnknownCodes :
       /\ params' = [numDwellings |-> n, rCode |-> c]
       /\ result' = calculateParkingRequirements(n, c)
  /\ op' = "calculateParkingRequirements"
  /\ pc' = "done"
  /\ UNCHANGED <<optimizerVars, comparatorVars, prev, table>>

---------------------------------------------------------------------------
(* The layout and infrastructure helpers of the two files, each one call *)

CallDetermineSiteLayout ==
  /\ pc = "idle"
  /\ \E w \in LotSides, d \in LotSides :
       /\ params' = [lotWidth |-> w, lotDepth |-> d]
       /\ result' = [kind |-> "layout", layout |-> determineSiteLayout(w, d)]
  /\ op' = "determineSiteLayout"
  /\ pc' = "done"
  /\ UNCHANGED <<optimizerVars, comparatorVars, prev, table>>

CallDetermineSiteLayoutService ==
  /\ pc = "idle"
  /\ \E w \in LotSides, d \in LotSides :
       /\ params' = [lotWidth |-> w, lotDepth |-> d]
       /\ result' = [kind |-> "layout", layout |-> determineSiteLayoutService(w, d)]
  /\ op' = "determineSiteLayoutService"
  /\ pc' = "done"
  /\ UNCHANGED <<optimizerVars, comparatorVars, prev, table>>

CallCalculateInfrastructureArea ==
  /\ pc = "idle"
  /\ \E n \in 0..MaxDwellings, l \in Layouts :
       /\ params' = [numDwellings |-> n, layout |-> l]
       /\ result' = calculateInfrastructureArea(n, l)
  /\ op' = "calculateInfrastructureArea"
  /\ pc' = "done"
  /\ UNCHANGED <<optimizerVars, comparatorVars, prev, table>>

CallCalculateInfrastructureAreaService ==
  /\ pc = "idle"
  /\ \E n \in 0..MaxDwellings, l \in Layouts :
       /\ params' = [numDwellings |-> n, layout |-> l]
       /\ result' = calculateInfrastructureAreaService(n, l)
  /\ op' = "calculateInfrastructureAreaService"
  /\ pc' = "done"
  /\ UNCHANGED <<optimizerVars, comparatorVars, prev, table>>

---------------------------------------------------------------------------
(* optimizeYield *)

\* the locals layout, envelope and rules of the running call
Layout(p) == determineSiteLayout(p.lotWidth, p.lotDepth)

Envelope(p) == calculateBuildableEnvelope(p.lotWidth, p.lotDepth, p.rCode)

\* entry: the rule lookup, the layout, the envelope, the loop initialisation
CallOptimizeYield(P) ==
  /\ pc = "idle"
  /\ \E p \in P :
       /\ params' = p
       /\ IF ~Truthy(getRCodeRules(p.rCode))
          THEN /\ pc' = "done"
               /\ result' = Null
               /\ UNCHANGED optimizerVars
          ELSE IF Envelope(p).kind = "throw"
          THEN /\ pc' = "done"
               /\ result' = Thrown
               /\ UNCHANGED optimizerVars
          ELSE /\ pc' = "optimizeYield"
               /\ result' = Null
               /\ totalUnits' = 1
               /\ bestResult' = FreshBestResult
  /\ op' = "optimizeYield"
  /\ UNCHANGED <<comparatorVars, prev, table>>

\* one iteration of the loop over totalUnits: every mix of that total
OptimizeYieldLoop ==
  /\ pc = "optimizeYield"
  /\ totalUnits <= MaxTotalUnits
  /\ LET mixes == generateMixes(totalUnits, params.lotWidth, getRCodeRules(params.rCode))
     IN  bestResult' = ScanMixes(mixes, 1, Len(mixes), bestResult, params,
                                 Layout(params), Envelope(params))
  /\ totalUnits' = NextTotalUnits(totalUnits)
  /\ UNCHANGED <<pc, op, params, result, comparatorVars, prev, table>>

\* after the loop: the fallback when nothing was compliant, and the return
OptimizeYieldReturn ==
  /\ pc = "optimizeYield"
  /\ totalUnits > MaxTotalUnits
  /\ bestResult' = IF ~Truthy(bestResult)
                   THEN evaluateMix(FallbackMix, params.lotArea, params.lotWidth, params.lotDepth,
                                    getRCodeRules(params.rCode), Layout(params), Envelope(params))
                   ELSE bestResult
  /\ result' = [layout |-> Layout(params),
                layoutDescription |-> getLayoutDescription(Layout(params), bestResult'),
                rCode |-> params.rCode,
                rules |-> getRCodeRules(params.rCode)] @@ bestResult'
  /\ pc' = "done"
  /\ UNCHANGED <<op, params, totalUnits, comparatorVars, prev, table>>

---------------------------------------------------------------------------
(* generateMixedScenarios, full-compliance variant *)

CallGenerateMixedScenarios(Q) ==
  /\ pc = "idle"
  /\ \E q \in Q :
       /\ params' = q
       /\ IF ~Truthy(getRCodeRules(q.property.rCode))
          THEN /\ pc' = "done"
               /\ result' = ScenarioList(<<>>)
               /\ UNCHANGED comparatorVars
          ELSE /\ pc' = "calculateMixedConfig"
               /\ result' = Null
               /\ scenarios' = <<>>
               /\ defIndex' = 1
               /\ totalTarget' = FullFirstTarget
               /\ bestConfig' = FreshBestConfig.config
               /\ bestUtilization' = FreshBestConfig.utilization
  /\ op' = "generateMixedScenarios"
  /\ UNCHANGED <<optimizerVars, prev, table>>

\* one iteration of the loop over totalTarget
MixedConfigTrial ==
  /\ pc = "calculateMixedConfig"
  /\ totalTarget <= FullLastTarget
  /\ LET p == params.property
         trial == FullTrial(totalTarget, p.lotArea, p.lotWidth, p.lotDepth,
                            getRCodeRules(p.rCode), SCENARIO_DEFINITIONS[defIndex].ratios)
     IN  IF trial.passes /\ PrefersTrial(trial.utilization, bestUtilization)
         THEN /\ bestUtilization' = trial.utilization
              /\ bestConfig' = trial.config
         ELSE UNCHANGED <<bestUtilization, bestConfig>>
  /\ totalTarget' = totalTarget + 1
  /\ UNCHANGED <<pc, op, params, result, defIndex, scenarios, optimizerVars, prev, table>>

\* calculateMixedConfig returns bestConfig; the scenario is pushed; the next
\* definition starts, or the list is returned
MixedConfigReturn ==
  /\ pc = "calculateMixedConfig"
  /\ totalTarget > FullLastTarget
  /\ scenarios' = IF Truthy(bestConfig)
                  THEN PushScenario(scenarios,
                              createScenario(SCENARIO_DEFINITIONS[defIndex], bestConfig,
                                             PricesOf(params.marketData), params.property.lotArea,
                                             getRCodeRules(params.property.rCode)))
                  ELSE scenarios
  /\ IF defIndex < Len(SCENARIO_DEFINITIONS)
     THEN /\ defIndex' = defIndex + 1
          /\ totalTarget' = FullFirstTarget
          /\ bestConfig' = FreshBestConfig.config
          /\ bestUtilization' = FreshBestConfig.utilization
          /\ UNCHANGED <<pc, result>>
     ELSE /\ pc' = "done"
          /\ result' = ScenarioList(scenarios')
          /\ UNCHANGED <<defIndex, totalTarget, bestConfig, bestUtilization>>
  /\ UNCHANGED <<op, params, optimizerVars, prev, table>>

---------------------------------------------------------------------------
(* generateMixedScenarios, basic ceiling variant *)

\* constraints?.maxFootprint || buildable.maxSiteCoverage and
\* constraints?.maxGFA || buildable.maxGFA, without constraints
Ceilings(property) == calculateBuildableArea(property.lotArea, property.rCode)

CallGenerateMixedScenariosBasic(Q) ==
  /\ pc = "idle"
  /\ \E q \in Q :
       /\ params' = q
       /\ IF ~Truthy(Ceilings(q.property))
          THEN /\ pc' = "done"
               /\ result' = ScenarioList(<<>>)
               /\ UNCHANGED comparatorVars
          ELSE /\ pc' = "calculateMixedConfigBasic"
               /\ result' = Null
               /\ scenarios' = <<>>
               /\ defIndex' = 1
               /\ totalTarget' = BasicFirstTarget
               /\ bestConfig' = FreshBestConfig.config
               /\ bestUtilization' = FreshBestConfig.utilization
  /\ op' = "generateMixedScenariosBasic"
  /\ UNCHANGED <<optimizerVars, prev, table>>

\* one iteration of the loop over totalTarget; with NaN ceilings no
\* comparison holds, so no trial is skipped and none is preferred
MixedConfigBasicTrial ==
  /\ pc = "calculateMixedConfigBasic"
  /\ totalTarget <= BasicLastTarget
  /\ LET ceilings == Ceilings(params.property)
         trial == BasicTrial(totalTarget, ceilings.maxSiteCoverage, ceilings.maxGFA,
                             SCENARIO_DEFINITIONS[defIndex].ratios)
     IN  IF ceilings.kind = "area" /\ trial.passes
            /\ PrefersTrial(trial.utilization, bestUtilization)
         THEN /\ bestUtilization' = trial.utilization
              /\ bestConfig' = trial.config
         ELSE UNCHANGED <<bestUtilization, bestConfig>>
  /\ totalTarget' = totalTarget + 1
  /\ UNCHANGED <<pc, op, params, result, defIndex, scenarios, optimizerVars, prev, table>>

MixedConfigBasicReturn ==
  /\ pc = "calculateMixedConfigBasic"
  /\ totalTarget > BasicLastTarget
  /\ scenarios' = IF Truthy(bestConfig)
                  THEN PushScenario(scenarios,
                              createScenarioBasic(SCENARIO_DEFINITIONS[defIndex], bestConfig,
                                                  PricesOf(params.marketData),
                                                  params.property.lotArea))
                  ELSE scenarios
  /\ IF defIndex < Len(SCENARIO_DEFINITIONS)
     THEN /\ defIndex' = defIndex + 1
          /\ totalTarget' = BasicFirstTarget
          /\ bestConfig' = FreshBestConfig.config
          /\ bestUtilization' = FreshBestConfig.utilization
          /\ UNCHANGED <<pc, result>>
     ELSE /\ pc' = "done"
          /\ result' = ScenarioList(scenarios')
          /\ UNCHANGED <<defIndex, totalTarget, bestConfig, bestUtilization>>
  /\ UNCHANGED <<op, params, optimizerVars, prev, table>>

---------------------------------------------------------------------------
(* Specifications *)

\* one call of any operation, on any input of the model
Next ==
  \/ CallGetRCodeRules
  \/ CallGetAllRCodes
  \/ CallCalculateBuildableArea
  \/ CallCalculateBuildableEnvelope
  \/ CallCalculateParkingRequirements
  \/ CallDetermineSiteLayout
  \/ CallDetermineSiteLayoutService
  \/ CallCalculateInfrastructureArea
  \/ CallCalculateInfrastructureAreaService
  \/ CallOptimizeYield(Properties)
  \/ OptimizeYieldLoop
  \/ OptimizeYieldReturn
  \/ CallGenerateMixedScenarios(ScenarioRequests)
  \/ MixedConfigTrial
  \/ MixedConfigReturn
  \/ CallGenerateMixedScenariosBasic(BasicRequests)
  \/ MixedConfigBasicTrial
  \/ MixedConfigBasicReturn

Spec == Init /\ [][Next]_vars

\* the steps inside a started call
Steps ==
  \/ OptimizeYieldLoop
  \/ OptimizeYieldReturn
  \/ MixedConfigTrial
  \/ MixedConfigReturn
  \/ MixedConfigBasicTrial
  \/ MixedConfigBasicReturn

\* one call of the optimizer or of the scenario generator, on a small, a
\* middling and a large lot of every shape and code
NextLive ==
  \/ CallOptimizeYield(LiveProperties)
  \/ CallGenerateMixedScenarios(LiveRequests)
  \/ CallGenerateMixedScenariosBasic(LiveRequests)
  \/ Steps

\* a call is between its entry and its return
Running == pc \in {"optimizeYield", "calculateMixedConfig", "calculateMixedConfigBasic"}

\* weak fairness of Steps, WF_vars(Steps), with ENABLED <<Steps>>_vars
\* written as Running: inside a call exactly one of the loop step and the
\* return is possible (their guards are totalUnits <= 20 and totalUnits > 20,
\* totalTarget <= 20 and totalTarget > 20) and it changes totalUnits,
\* totalTarget, defIndex or pc
StepsFairness == []<>(~Running) \/ []<><<Steps>>_vars

\* a started call runs on: the functions are synchronous and nothing
\* suspends them
SpecLive == Init /\ [][NextLive]_vars /\ StepsFairness

\* the caller takes the returned value and may keep it for a later comparison
Return ==
  /\ pc = "done"
  /\ pc' = "idle"
  /\ prev' \in {prev, [kind |-> "call", op |-> op, params |-> params, result |-> result]}
  /\ UNCHANGED <<op, params, result, optimizerVars, comparatorVars, table>>

\* any number of calls of the optimizer and the scenario generator, one
\* after the other
NextCalls ==
  \/ CallOptimizeYield(RepeatedProperties)
  \/ OptimizeYieldLoop
  \/ OptimizeYieldReturn
  \/ CallGenerateMixedScenarios(RepeatedRequests)
  \/ MixedConfigTrial
  \/ MixedConfigReturn
  \/ Return

SpecCalls == Init /\ [][NextCalls]_vars

\* the objects of the rule table that the returned value holds by reference:
\* getRCodeRules returns the table's entry itself, the envelope holds
\* rules.setbacks, the optimizer result holds rules; <<c>> names the entry of
\* code c and <<c, "setbacks">> its setbacks object
ReturnedReferences ==
  IF op = "getRCodeRules" /\ result.kind = "rules"
  THEN {<<params.rCode>>, <<params.rCode, "setbacks">>}
  ELSE IF op = "calculateBuildableEnvelope" /\ result.kind = "envelope"
  THEN {<<params.rCode, "setbacks">>}
  ELSE IF op = "optimizeYield" /\ result.kind = "evaluation"
  THEN {<<params.rCode>>, <<params.rCode, "setbacks">>}
  ELSE {}

\* the number of table fields that differ from their initial values
WritesSoFar ==
  Cardinality({c \in KnownCodes : table[c].minLotSize # R_CODE_RULES[c].minLotSize})
    + Cardinality({c \in KnownCodes : table[c].setbacks.side # R_CODE_RULES[c].setbacks.side})

\* the caller assigns to a field of an object it was handed: minLotSize = 1
\* on a rules object, side = 0 on a setbacks object; the returned value is
\* the same object, so it shows the assignment too
CallerWrites ==
  /\ pc = "done"
  /\ WritesSoFar < MaxWrites
  /\ \E ref \in ReturnedReferences :
       LET c == ref[1]
       IN  table' = IF Len(ref) = 1
                    THEN [table EXCEPT ![c].minLotSize = 1]
                    ELSE [table EXCEPT ![c].setbacks.side = 0]
  /\ table' # table
  /\ result' = IF op = "getRCodeRules" THEN table'[params.rCode]
               ELSE IF op = "calculateBuildableEnvelope"
               THEN [result EXCEPT !.setbacks = table'[params.rCode].setbacks]
               ELSE [result EXCEPT !.rules = table'[params.rCode]]
  /\ UNCHANGED <<pc, op, params, optimizerVars, comparatorVars, prev>>

\* the caller goes on to its next call: the returned value and the locals
\* of the finished call are gone, the table stays as it is
CallerProceeds ==
  /\ pc = "done"
  /\ pc' = "idle"
  /\ op' = "none"
  /\ params' = Null
  /\ result' = Null
  /\ totalUnits' = 0
  /\ bestResult' = Null
  /\ defIndex' = 0
  /\ totalTarget' = 0
  /\ bestConfig' = Null
  /\ bestUtilization' = <<0, 1>>
  /\ scenarios' = <<>>
  /\ UNCHANGED <<prev, table>>

\* any number of calls, the caller free to assign to what it was handed
NextShared ==
  \/ CallGetRCodeRules
  \/ CallGetAllRCodes
  \/ CallCalculateBuildableArea
  \/ CallCalculateBuildableEnvelope
  \/ CallCalculateParkingRequirements
  \/ CallOptimizeYield(RepeatedProperties)
  \/ OptimizeYieldLoop
  \/ OptimizeYieldReturn
  \/ CallGenerateMixedScenarios(RepeatedRequests)
  \/ MixedConfigTrial
  \/ MixedConfigReturn
  \/ CallerWrites
  \/ CallerProceeds

SpecShared == Init /\ [][NextShared]_vars

---------------------------------------------------------------------------
(* Properties *)

\* the operations that take a code
CodedOps ==
  {"getRCodeRules", "calculateBuildableArea", "calculateBuildableEnvelope",
   "calculateParkingRequirements", "optimizeYield", "generateMixedScenarios",
   "generateMixedScenariosBasic"}

\* the code of the finished call
CodeOf ==
  IF op \in {"generateMixedScenarios", "generateMixedScenariosBasic"}
  THEN params.property.rCode ELSE params.rCode

OptimizerDone == pc = "done" /\ op = "optimizeYield" /\ params.rCode \in KnownCodes

ScenariosDone ==
  pc = "done" /\ op = "generateMixedScenarios" /\ params.property.rCode \in KnownCodes

\* the scenarios of a returned list, as a set
Listed == {result.list[i] : i \in 1..Len(result.list)}

\* the optimizer's search space: totals 1..20, 4-bed count at most 30% of the total
SearchSpace ==
  {m \in [TypeSet -> 0..20] :
     /\ m["2bed"] + m["3bed"] + m["4bed"] \in 1..20
     /\ 10 * m["4bed"] <= 3 * (m["2bed"] + m["3bed"] + m["4bed"])}

\* the mixes of the search space that are compliant on the lot of p
CompliantMixes(p) ==
  {m \in SearchSpace :
     evaluateMix(m, p.lotArea, p.lotWidth, p.lotDepth, getRCodeRules(p.rCode),
                 Layout(p), Envelope(p)).compliant}

\* revenue of a mix by the reference prices
Revenue(m) == 450000 * m["2bed"] + 620000 * m["3bed"] + 780000 * m["4bed"]

\* m1 is enumerated before m2: ascending total, then 4-bed count, then 3-bed count
EnumeratedBefore(m1, m2) ==
  LET t1 == m1["2bed"] + m1["3bed"] + m1["4bed"]
      t2 == m2["2bed"] + m2["3bed"] + m2["4bed"]
  IN  \/ t1 < t2
      \/ t1 = t2 /\ m1["4bed"] < m2["4bed"]
      \/ t1 = t2 /\ m1["4bed"] = m2["4bed"] /\ m1["3bed"] < m2["3bed"]

\* C1: a result of optimizeYield whose compliant flag is true has plot ratio
\* and site coverage ratio at most the code's maxima, open space ratio at least
\* the code's minimum, and its three compliance flags true
C1_CompliantWithinLimits ==
  (OptimizerDone /\ result.compliant) =>
    LET rules == R_CODE_RULES[params.rCode]
    IN  /\ result.plotRatio = <<result.totalGFA, 2 * params.lotArea>>
        /\ result.siteCoverageRatio = <<result.totalCoverage, 2 * params.lotArea>>
        /\ result.openSpaceRatio = <<2 * params.lotArea - result.totalCoverage, 2 * params.lotArea>>
        /\ result.totalGFA * 100 <= rules.maxPlotRatio * 2 * params.lotArea
        /\ result.totalCoverage * 100 <= rules.maxSiteCoverage * 2 * params.lotArea
        /\ (2 * params.lotArea - result.totalCoverage) * 100
             >= rules.minOpenSpace * 2 * params.lotArea
        /\ result.compliance.plotRatio
        /\ result.compliance.siteCoverage
        /\ result.compliance.openSpace

\* a compliant result of several units under R40, where the open-space limit
\* is tighter than the site-coverage limit
C1_Witness ==
  /\ OptimizerDone
  /\ result.compliant
  /\ result.totalUnits > 1
  /\ params.rCode = "R40"

\* C2: every scenario of the full-compliance variant meets the four limits
\* with the values it reports (ratios in thousandths), and its totalGFA is at
\* most lotArea x maxPlotRatio
C2_ScenariosWithinLimits ==
  ScenariosDone =>
    \A s \in Listed :
      LET rules == R_CODE_RULES[params.property.rCode]
      IN  /\ s.plotRatio <= 10 * rules.maxPlotRatio
          /\ s.siteCoverageRatio <= 10 * rules.maxSiteCoverage
          /\ s.openSpaceRatio >= 10 * rules.minOpenSpace
          /\ params.property.lotArea >= rules.minLotSize * s.totalUnits
          /\ s.totalGFA * 100 <= params.property.lotArea * rules.maxPlotRatio
          /\ s.compliance.maxPlotRatio = rules.maxPlotRatio
          /\ s.compliance.minLotSize = rules.minLotSize

\* a returned scenario whose lot size per unit is exactly the minimum
C2_Witness ==
  /\ ScenariosDone
  /\ \E s \in Listed :
       params.property.lotArea = R_CODE_RULES[params.property.rCode].minLotSize * s.totalUnits

\* what optimizeYield returns when some mix of the search space is compliant
C3_Final ==
  (OptimizerDone /\ CompliantMixes(params) # {}) =>
    /\ result.compliant
    /\ result.mix \in CompliantMixes(params)
    /\ result.estimatedRevenue = Revenue(result.mix)
    /\ \A m \in CompliantMixes(params) :
         /\ Revenue(m) <= result.estimatedRevenue
         /\ Revenue(m) = result.estimatedRevenue => ~EnumeratedBefore(m, result.mix)

C4_FallbackSingleUnit ==
  OptimizerDone =>
    /\ result.kind = "evaluation"
    /\ result.totalUnits \in 1..20
    /\ CompliantMixes(params) = {} =>
         LET rules == R_CODE_RULES[params.rCode]
             coverage == 2 * 55 + (7 * (IF 2 * params.lotDepth > 5 * params.lotWidth THEN 25 ELSE 15))
                         + 2 * 8 + 2 * 15
         IN  /\ result.mix = Mix(1, 0, 0)
             /\ result.totalUnits = 1
             /\ result.totalGFA = 2 * 100
             /\ result.totalCoverage = coverage
             /\ result.compliance.plotRatio = (100 * 100 <= rules.maxPlotRatio * params.lotArea)
             /\ result.compliance.siteCoverage
                  = (coverage * 100 <= rules.maxSiteCoverage * 2 * params.lotArea)
             /\ result.compliance.openSpace
                  = ((2 * params.lotArea - coverage) * 100 >= rules.minOpenSpace * 2 * params.lotArea)
             /\ ~result.compliant

\* the fallback returned with a failing flag
C4_Witness ==
  /\ OptimizerDone
  /\ CompliantMixes(params) = {}
  /\ result.mix = Mix(1, 0, 0)
  /\ ~result.compliance.openSpace

\* C5: for every code that is not a known identifier the calculators and
\* optimizeYield return null and generateMixedScenarios returns an empty list;
\* none of them throws
C5_UnknownCodeSentinel ==
  (pc = "done" /\ op \in CodedOps /\ CodeOf \notin KnownCodes) =>
    IF op \in {"generateMixedScenarios", "generateMixedScenariosBasic"}
    THEN result = ScenarioList(<<>>)
    ELSE result = Null

\* the position of a scenario name in the catalog
CatalogIndex(name) ==
  CHOOSE k \in 1..Len(SCENARIO_DEFINITIONS) : SCENARIO_DEFINITIONS[k].name = name

\* the target totals of a request and a definition whose trial passes the
\* four checks of the full-compliance search
FullPassing(q, k) ==
  {t \in 2..20 :
     FullTrial(t, q.property.lotArea, q.property.lotWidth, q.property.lotDepth,
               getRCodeRules(q.property.rCode), SCENARIO_DEFINITIONS[k].ratios).passes}

FullTrialAt(t) ==
  FullTrial(t, params.property.lotArea, params.property.lotWidth, params.property.lotDepth,
            getRCodeRules(params.property.rCode), SCENARIO_DEFINITIONS[defIndex].ratios)

\* the same in the basic ceiling search
BasicTrialAt(t) ==
  BasicTrial(t, Ceilings(params.property).maxSiteCoverage, Ceilings(params.property).maxGFA,
             SCENARIO_DEFINITIONS[defIndex].ratios)

FullPassingTargets == {t \in 2..20 : FullTrialAt(t).passes}

BasicPassingTargets == {t \in 4..20 : BasicTrialAt(t).passes}

\* calculateMixedConfig is about to return, in either variant
FullSearchEnd ==
  pc = "calculateMixedConfig" /\ totalTarget > 20 /\ params.property.rCode \in KnownCodes

BasicSearchEnd ==
  pc = "calculateMixedConfigBasic" /\ totalTarget > 20 /\ params.property.rCode \in KnownCodes

\* what calculateMixedConfig returns for one definition
C7_Final ==
  /\ FullSearchEnd =>
       IF FullPassingTargets = {}
       THEN bestConfig = Null
       ELSE \E t \in FullPassingTargets :
              /\ bestConfig = FullTrialAt(t).config
              /\ \A u \in FullPassingTargets :
                   /\ ~RatioGreater(FullTrialAt(u).utilization, FullTrialAt(t).utilization)
                   /\ u < t => RatioGreater(FullTrialAt(t).utilization, FullTrialAt(u).utilization)
  /\ BasicSearchEnd =>
       IF BasicPassingTargets = {}
       THEN bestConfig = Null
       ELSE \E t \in BasicPassingTargets :
              /\ bestConfig = BasicTrialAt(t).config
              /\ \A u \in BasicPassingTargets :
                   /\ ~RatioGreater(BasicTrialAt(u).utilization, BasicTrialAt(t).utilization)
                   /\ u < t => RatioGreater(BasicTrialAt(t).utilization, BasicTrialAt(u).utilization)

\* C7: for each definition the configuration returned is that of the passing
\* trial of the highest utilization, the smallest target total among equals;
\* none is returned exactly when no trial passes; and during the search the
\* best utilization changes only to a strictly higher one
C7_HighestUtilization ==
  /\ []C7_Final
  /\ [][(pc \in {"calculateMixedConfig", "calculateMixedConfigBasic"}
           /\ pc' = pc /\ defIndex' = defIndex /\ params' = params
           /\ <<bestUtilization, bestConfig>>' # <<bestUtilization, bestConfig>>)
          => RatioGreater(bestUtilization', bestUtilization)]_vars

\* a search of the full variant that ends with two passing trials sharing
\* the highest utilization, and a passing trial below it
C7_Witness ==
  /\ FullSearchEnd
  /\ \E t, u, v \in FullPassingTargets :
       /\ t < u
       /\ FullTrialAt(t).utilization = FullTrialAt(u).utilization
       /\ bestConfig = FullTrialAt(t).config
       /\ RatioGreater(FullTrialAt(t).utilization, FullTrialAt(v).utilization)

ReferenceDone ==
  /\ pc = "done"
  /\ op = "generateMixedScenarios"
  /\ params.property = [lotArea |-> 800, lotWidth |-> 20, lotDepth |-> 40, rCode |-> "R60"]
  /\ params.marketData = Null

\* C9: for the lot of area 800, width 20, depth 40 under R60 and default
\* prices, the full-compliance variant returns all 7 catalog scenarios, each
\* of 2 to 6 units
C9_ReferenceLot ==
  ReferenceDone =>
    /\ Len(result.list) = 7
    /\ \A i \in 1..7 :
         /\ result.list[i].name = SCENARIO_DEFINITIONS[i].name
         /\ result.list[i].totalUnits \in 2..6

\* the reference request answered, with a scenario of 3 units and one of 4
C9_Witness ==
  /\ ReferenceDone
  /\ \E s, t \in Listed : s.totalUnits = 3 /\ t.totalUnits = 4

\* C10: a call of optimizeYield or generateMixedScenarios returns what an
\* earlier call with the same inputs returned, whatever calls were made in
\* between
C10_Deterministic ==
  (pc = "done" /\ prev.kind = "call" /\ prev.op = op /\ prev.params = params)
    => prev.result = result

\* a repeated optimizeYield call that ends after a call of the scenario
\* generator left its list behind
C10_Witness ==
  /\ pc = "done"
  /\ op = "optimizeYield"
  /\ prev.kind = "call"
  /\ prev.op = op
  /\ prev.params = params
  /\ params.rCode \in KnownCodes
  /\ scenarios # <<>>
  /\ result.totalUnits > 1

\* C11: after any sequence of calls, and whatever the caller does with the
\* returned values, every rule of every code has its initial values
C11_TableReadOnly == table = R_CODE_RULES

EnvelopeDone ==
  pc = "done" /\ op = "calculateBuildableEnvelope" /\ params.rCode \in KnownCodes

\* width - 2 x side and depth - primaryStreet - rear, in half metres
RawWidth == 2 * params.lotWidth - 2 * R_CODE_RULES[params.rCode].setbacks.side

RawDepth ==
  2 * params.lotDepth - R_CODE_RULES[params.rCode].setbacks.primaryStreet
    - R_CODE_RULES[params.rCode].setbacks.rear

\* C12: calculateBuildableEnvelope reports each effective dimension clamped
\* at 0 but takes the area from the unclamped values: positive when both are
\* negative (width 2, depth 3 under R20: 0, 0 and 9), 0 when exactly one is
\* negative; width 20, depth 40 under R60 gives 18, 34.5 and 621
C12_EnvelopeFromRawValues ==
  EnvelopeDone =>
    /\ result.effectiveWidth = (IF RawWidth > 0 THEN RawWidth ELSE 0)
    /\ result.effectiveDepth = (IF RawDepth > 0 THEN RawDepth ELSE 0)
    /\ 2 * result.envelopeArea
         = (IF RawWidth * RawDepth > 0 THEN RawWidth * RawDepth ELSE 0)
    /\ (RawWidth < 0 /\ RawDepth < 0) => result.envelopeArea > 0
    /\ ((RawWidth < 0) # (RawDepth < 0)) => result.envelopeArea = 0
    /\ (params.lotWidth = 2 /\ params.lotDepth = 3 /\ params.rCode = "R20")
         => /\ result.effectiveWidth = 0
            /\ result.effectiveDepth = 0
            /\ result.envelopeArea = 2 * 9
    /\ (params.lotWidth = 20 /\ params.lotDepth = 40 /\ params.rCode = "R60")
         => /\ result.effectiveWidth = 2 * 18
            /\ result.effectiveDepth = 69
            /\ result.envelopeArea = 2 * 621

\* the envelope of a lot narrower and shallower than its setbacks: both
\* dimensions reported as 0, the area positive
C12_Witness ==
  /\ EnvelopeDone
  /\ RawWidth < 0
  /\ RawDepth < 0
  /\ result.effectiveWidth = 0
  /\ result.envelopeArea > 0

AreaDone == pc = "done" /\ op = "calculateBuildableArea" /\ params.rCode \in KnownCodes

ParkingDone ==
  pc = "done" /\ op = "calculateParkingRequirements" /\ params.rCode \in KnownCodes

\* C14: calculateParkingRequirements returns residentBays = ceil(n x
\* parkingPerDwelling), visitorBays = ceil(n x visitorParkingRatio), their sum
\* as totalBays and 18 x totalBays as parkingArea; 4 dwellings under R60 give
\* 4, 1, 5 and 90
C14_ParkingBays ==
  ParkingDone =>
    LET rules == R_CODE_RULES[params.rCode]
        n == params.numDwellings
    IN  /\ result.kind = "parking"
        /\ 100 * result.residentBays >= n * rules.parkingPerDwelling
        /\ 100 * (result.residentBays - 1) < n * rules.parkingPerDwelling
        /\ 100 * result.visitorBays >= n * rules.visitorParkingRatio
        /\ 100 * (result.visitorBays - 1) < n * rules.visitorParkingRatio
        /\ result.totalBays = result.residentBays + result.visitorBays
        /\ result.parkingArea = 18 * result.totalBays
        /\ (n = 4 /\ params.rCode = "R60")
             => /\ result.residentBays = 4
                /\ result.visitorBays = 1
                /\ result.totalBays = 5
                /\ result.parkingArea = 90

\* three dwellings under R60: the visitor share of 0.75 is rounded up to a bay
C14_Witness ==
  /\ ParkingDone
  /\ params.numDwellings = 3
  /\ params.rCode = "R60"
  /\ result.visitorBays = 1
  /\ result.totalBays = 4

InfraDone ==
  pc = "done" /\ op \in {"calculateInfrastructureArea", "calculateInfrastructureAreaService"}

\* C15: both copies of calculateInfrastructureArea return drivewayArea =
\* width x length (width 6 above 3 dwellings, else 3.5; length 25 for
\* battle-axe, else 15), turningArea = 50 above 4 dwellings, else 0,
\* commonLandscaping = 8 x n and their sum as totalInfraArea, and the two
\* copies agree for every n and layout (the model holds areas doubled)
C15_InfrastructureArea ==
  /\ InfraDone =>
       LET n == params.numDwellings
           width == IF n > 3 THEN 12 ELSE 7
           length == IF params.layout = "battle-axe" THEN 25 ELSE 15
       IN  /\ result.drivewayArea = width * length
           /\ result.turningArea = (IF n > 4 THEN 100 ELSE 0)
           /\ result.commonLandscaping = 16 * n
           /\ result.totalInfraArea
                = result.drivewayArea + result.turningArea + result.commonLandscaping
  /\ \A n \in 0..MaxDwellings, l \in Layouts :
       calculateInfrastructureArea(n, l) = calculateInfrastructureAreaService(n, l)

\* the service's copy called for exactly 4 dwellings on a battle-axe lot: the
\* wide driveway, no turning area yet
C15_Witness ==
  /\ pc = "done"
  /\ op = "calculateInfrastructureAreaService"
  /\ params.numDwellings = 4
  /\ params.layout = "battle-axe"
  /\ result.drivewayArea = 12 * 25
  /\ result.turningArea = 0

LayoutDone == pc = "done" /\ op \in {"determineSiteLayout", "determineSiteLayoutService"}

\* both conditions of the classification hold for width w and depth d
BothLayoutConditions(w, d) == 2 * d > 5 * w /\ 5 * w > 6 * d

\* C16: the layout is battle-axe iff depth / width > 2.5, otherwise
\* wide-frontage iff width > 1.2 x depth, otherwise standard; the two
\* conditions never hold together, so it is one of three values whatever the
\* order of the tests; the optimizer reports the classification of its lot
C16_LayoutClassification ==
  /\ LayoutDone =>
       LET w == params.lotWidth
           d == params.lotDepth
       IN  /\ result.layout \in Layouts
           /\ result.layout = "battle-axe" <=> 2 * d > 5 * w
           /\ result.layout = "wide-frontage" <=> 5 * w > 6 * d
           /\ result.layout = "standard" <=> (2 * d <= 5 * w /\ 5 * w <= 6 * d)
           /\ ~BothLayoutConditions(w, d)
  /\ OptimizerDone =>
       LET w == params.lotWidth
           d == params.lotDepth
       IN  /\ result.layout = "battle-axe" <=> 2 * d > 5 * w
           /\ result.layout = "wide-frontage" <=> 5 * w > 6 * d
           /\ result.layout \in Layouts

\* a lot exactly on the first threshold (depth = 2.5 x width) classified as
\* standard
C16_Witness ==
  /\ LayoutDone
  /\ 2 * params.lotDepth = 5 * params.lotWidth
  /\ result.layout = "standard"

AllCodesDone == pc = "done" /\ op = "getAllRCodes"

\* C17: every code of the table has minLotSize > 0 and each of maxPlotRatio,
\* maxSiteCoverage, minOpenSpace and visitorParkingRatio in (0, 1]; in the
\* order getAllRCodes returns (R20, R30, R40, R60, R80) minLotSize strictly
\* decreases and maxPlotRatio never decreases
C17_TableWellFormed ==
  /\ \A c \in DOMAIN table :
       /\ table[c].minLotSize > 0
       /\ table[c].maxPlotRatio \in 1..100
       /\ table[c].maxSiteCoverage \in 1..100
       /\ table[c].minOpenSpace \in 1..100
       /\ table[c].visitorParkingRatio \in 1..100
  /\ AllCodesDone =>
       /\ {result.list[i] : i \in 1..Len(result.list)} = DOMAIN table
       /\ Len(result.list) = 5
       /\ result.list[1] = "R20"
       /\ result.list[5] = "R80"
       /\ \A i \in 1..(Len(result.list) - 1) :
            /\ table[result.list[i]].minLotSize > table[result.list[i + 1]].minLotSize
            /\ table[result.list[i]].maxPlotRatio <= table[result.list[i + 1]].maxPlotRatio

\* getAllRCodes answered, with two neighbouring codes of equal plot ratio
C17_Witness ==
  /\ AllCodesDone
  /\ \E i \in 1..(Len(result.list) - 1) :
       table[result.list[i]].maxPlotRatio = table[result.list[i + 1]].maxPlotRatio

\* a step of the optimizer takes the next total or returns
OptimizerAdvances ==
  pc = "optimizeYield" => (totalUnits' = totalUnits + 1 \/ pc' = "done")

\* a step of the comparator takes the next trial total, or the first trial
\* total of the next definition, or returns
ComparatorAdvances ==
  pc \in {"calculateMixedConfig", "calculateMixedConfigBasic"} =>
    \/ totalTarget' = totalTarget + 1 /\ defIndex' = defIndex
    \/ totalTarget' \in {2, 4} /\ defIndex' = defIndex + 1
    \/ pc' = "done"

\* C18: every call of optimizeYield and generateMixedScenarios terminates:
\* a running call reaches its return; the optimizer loop runs over the totals
\* 1..20 and the comparator over at most 19 trial totals for each of the 7
\* definitions, every step advancing the loop, whatever the lot and the code
C18_Terminates ==
  /\ Running ~> (pc = "done")
  /\ [](/\ totalUnits \in 0..21
        /\ totalTarget \in 0..21
        /\ defIndex \in 0..7
        /\ (OptimizerDone /\ result.kind = "evaluation") => totalUnits = 21
        /\ (ScenariosDone \/ (pc = "done" /\ op = "generateMixedScenariosBasic"
                                /\ params.property.rCode \in KnownCodes))
             => (defIndex = 7 /\ totalTarget = 21))
  /\ [][OptimizerAdvances]_vars
  /\ [][ComparatorAdvances]_vars

\* the comparator returned after its last trial of the last definition
C18_Witness ==
  /\ ScenariosDone
  /\ defIndex = 7
  /\ totalTarget = 21
  /\ Len(result.list) > 0

\* the position of a type in the key order 2bed, 3bed, 4bed
TypePosition(t) == CASE t = "2bed" -> 1 [] t = "3bed" -> 2 [] t = "4bed" -> 3

\* the last type of nonzero ratio
LastNonZero(ratios) ==
  CHOOSE t \in TypeSet :
    /\ ratios[t] > 0
    /\ \A u \in TypeSet : ratios[u] > 0 => TypePosition(u) <= TypePosition(t)

\* T x ratio rounded to the nearest integer, halves upwards: the integer k
\* with k - 1/2 <= T x ratio < k + 1/2 (ratios in hundredths)
NearestShare(T, ratios, t) ==
  CHOOSE k \in 0..T : 200 * k - 100 <= 2 * T * ratios[t] /\ 2 * T * ratios[t] < 200 * k + 100

\* the counts as the derivation is described
DescribedCounts(T, ratios) ==
  LET last == LastNonZero(ratios)
      others == {t \in TypeSet : ratios[t] > 0 /\ t # last}
      share == [t \in others |-> NearestShare(T, ratios, t)]
      given == IF others = {} THEN 0
               ELSE IF Cardinality(others) = 1 THEN share[CHOOSE t \in others : TRUE]
               ELSE share["2bed"] + share["3bed"]
      raw == [t \in TypeSet |->
                IF ratios[t] = 0 THEN 0 ELSE IF t = last THEN T - given ELSE share[t]]
  IN  [t \in TypeSet |-> IF ratios[t] > 0 /\ raw[t] < 1 THEN 1 ELSE raw[t]]

\* the ratios of the definition being searched
SearchedRatios == SCENARIO_DEFINITIONS[defIndex].ratios

Searching == pc \in {"calculateMixedConfig", "calculateMixedConfigBasic"}

\* C19: for a definition and a target total T the counts are: round(T x
\* ratio), halves up, for every nonzero-ratio type but the last, T minus the
\* sum of those for the last nonzero-ratio type, then 1 for every
\* nonzero-ratio type whose count is below 1, and 0 for every zero-ratio type
C19_CountDerivation ==
  /\ []((Searching /\ totalTarget <= 20)
          => DeriveCounts(totalTarget, SearchedRatios) = DescribedCounts(totalTarget, SearchedRatios))
  /\ [][(Searching /\ bestConfig' # bestConfig /\ defIndex' = defIndex /\ pc' = pc)
          => bestConfig'.counts = DescribedCounts(totalTarget, SearchedRatios)]_vars

\* a kept configuration whose counts exceed their target total: the last
\* type was left with no unit and raised to 1
C19_Witness ==
  /\ pc = "calculateMixedConfig"
  /\ bestConfig # Null
  /\ \E T \in 2..20 :
       /\ T < totalTarget
       /\ bestConfig.counts = DescribedCounts(T, SearchedRatios)
       /\ bestConfig.totalUnits > T

\* the list of mixes the running optimizer call enumerates for its total
EnumeratedMixes ==
  generateMixes(totalUnits, params.lotWidth, getRCodeRules(params.rCode))

\* the mixes of total T of the search space
MixesOfTotal(T) == {m \in SearchSpace : m["2bed"] + m["3bed"] + m["4bed"] = T}

\* C20: for each total T from 1 to 20 the optimizer enumerates exactly the
\* mixes that sum to T with a 4-bed count of at most floor(0.3 x T), each
\* once, by ascending 4-bed count and then ascending 3-bed count; a mix
\* returned from the search has at most 30% 4-bed units, and none when the
\* total is below 4
C20_MixEnumeration ==
  /\ (pc = "optimizeYield" /\ totalUnits <= 20) =>
       /\ totalUnits >= 1
       /\ {EnumeratedMixes[i] : i \in 1..Len(EnumeratedMixes)} = MixesOfTotal(totalUnits)
       /\ Len(EnumeratedMixes) = Cardinality(MixesOfTotal(totalUnits))
       /\ \A i \in 1..(Len(EnumeratedMixes) - 1) :
            \/ EnumeratedMixes[i]["4bed"] < EnumeratedMixes[i + 1]["4bed"]
            \/ /\ EnumeratedMixes[i]["4bed"] = EnumeratedMixes[i + 1]["4bed"]
               /\ EnumeratedMixes[i]["3bed"] < EnumeratedMixes[i + 1]["3bed"]
       /\ totalUnits < 4 => \A i \in 1..Len(EnumeratedMixes) : EnumeratedMixes[i]["4bed"] = 0
  /\ (pc = "optimizeYield" /\ Truthy(bestResult)) =>
       /\ 10 * bestResult.mix["4bed"] <= 3 * bestResult.totalUnits
       /\ bestResult.totalUnits < 4 => bestResult.mix["4bed"] = 0
  /\ (OptimizerDone /\ result.kind = "evaluation") =>
       /\ 10 * result.mix["4bed"] <= 3 * result.totalUnits
       /\ result.totalUnits < 4 => result.mix["4bed"] = 0

\* the search at a total whose list holds mixes with 4-bed units, a compliant
\* mix of at least 4 units already kept
C20_Witness ==
  /\ pc = "optimizeYield"
  /\ totalUnits \in 10..20
  /\ EnumeratedMixes[Len(EnumeratedMixes)]["4bed"] = 3
  /\ Truthy(bestResult)
  /\ bestResult.totalUnits >= 4

---------------------------------------------------------------------------
(* The envelope fit and the compliant flag *)

\* the mixes of the search space that meet the three limits on the lot of p,
\* whatever their envelope fit
WithinThreeLimits(p) ==
  {m \in SearchSpace :
     LET e == evaluateMix(m, p.lotArea, p.lotWidth, p.lotDepth, getRCodeRules(p.rCode),
                          Layout(p), Envelope(p))
     IN  e.compliance.plotRatio /\ e.compliance.siteCoverage /\ e.compliance.openSpace}

\* C21: the compliant flag of the optimizer's result is true exactly when
\* plot ratio <= maxPlotRatio, site coverage ratio <= maxSiteCoverage and open
\* space ratio >= minOpenSpace; compliance.envelope reports totalCoverage <=
\* envelopeArea + totalInfraArea and has no part in the flag or in the choice:
\* the mix returned is of the greatest revenue among all mixes within the
\* three limits, whether they fit the envelope or not
C21_EnvelopeNotFiltered ==
  OptimizerDone =>
    LET rules == R_CODE_RULES[params.rCode]
        lot == 2 * params.lotArea
    IN  /\ result.compliant
             <=> /\ result.totalGFA * 100 <= rules.maxPlotRatio * lot
                 /\ result.totalCoverage * 100 <= rules.maxSiteCoverage * lot
                 /\ (lot - result.totalCoverage) * 100 >= rules.minOpenSpace * lot
        /\ result.compliance.envelope
             <=> result.totalCoverage
                   <= Envelope(params).envelopeArea + result.infrastructure.totalInfraArea
        /\ IF WithinThreeLimits(params) = {}
           THEN result.mix = Mix(1, 0, 0)
           ELSE /\ result.mix \in WithinThreeLimits(params)
                /\ \A m \in WithinThreeLimits(params) : Revenue(m) <= result.estimatedRevenue

\* a compliant result of several units that does not fit the envelope, on a
\* lot whose area is its width times its depth
C21_Witness ==
  /\ OptimizerDone
  /\ params.lotArea = params.lotWidth * params.lotDepth
  /\ result.compliant
  /\ result.totalUnits > 1
  /\ ~result.compliance.envelope

---------------------------------------------------------------------------
(* Prices of the scenario generator *)

\* the price map the caller supplied, if any
SuppliedPrices ==
  IF params.marketData.kind = "marketData" /\ "prices" \in DOMAIN params.marketData
  THEN params.marketData.prices
  ELSE [t \in TypeSet |-> Undefined]

\* the price of a type as described: the supplied one when present and
\* non-zero, else 550000, 650000 or 780000
DescribedPrice(t) ==
  IF SuppliedPrices[t].kind = "number" /\ SuppliedPrices[t].value # 0
  THEN SuppliedPrices[t].value
  ELSE CASE t = "2bed" -> 550000 [] t = "3bed" -> 650000 [] t = "4bed" -> 780000

\* a call of the scenario generator, of either variant, has returned
AnyScenariosDone ==
  /\ pc = "done"
  /\ op \in {"generateMixedScenarios", "generateMixedScenariosBasic"}
  /\ params.property.rCode \in KnownCodes

\* C22: the estimatedGRV of every scenario, of either variant, is the sum
\* over the three types of count x price, the price being the supplied one
\* when the price map is given and holds a non-zero price of the type, and
\* the default (550000, 650000, 780000) otherwise; the optimizer's reference
\* prices (450000, 620000, 780000) are not used
C22_RevenueFromPrices ==
  AnyScenariosDone =>
    \A s \in Listed :
      s.estimatedGRV = s.mix["2bed"] * DescribedPrice("2bed")
                       + s.mix["3bed"] * DescribedPrice("3bed")
                       + s.mix["4bed"] * DescribedPrice("4bed")

\* a list returned for a price map with a price, a missing price and a zero
\* price, holding a scenario with units of all three types
C22_Witness ==
  /\ ScenariosDone
  /\ params.marketData.kind = "marketData"
  /\ "prices" \in DOMAIN params.marketData
  /\ params.marketData.prices["3bed"].kind = "undefined"
  /\ \E s \in Listed :
       /\ s.mix["2bed"] > 0 /\ s.mix["3bed"] > 0 /\ s.mix["4bed"] > 0
       /\ s.estimatedGRV = s.mix["2bed"] * 500000 + s.mix["3bed"] * 650000
                            + s.mix["4bed"] * 780000

---------------------------------------------------------------------------
(* The utilization band of the basic ceiling search *)

BasicScenariosDone ==
  pc = "done" /\ op = "generateMixedScenariosBasic" /\ params.property.rCode \in KnownCodes

\* C23: every configuration the basic ceiling search returns has
\* totalFootprint <= maxFootprint, totalGFA <= maxGFA and a utilization
\* (totalGFA / maxGFA) of at least 70% and at most 95%
C23_BasicBand ==
  BasicScenariosDone =>
    \A s \in Listed :
      LET ceilings == Ceilings(params.property)
      IN  /\ 2 * s.totalFootprint <= ceilings.maxSiteCoverage
          /\ 2 * s.totalGFA <= ceilings.maxGFA
          /\ 100 * 2 * s.totalGFA >= 70 * ceilings.maxGFA
          /\ 100 * 2 * s.totalGFA <= 95 * ceilings.maxGFA

---------------------------------------------------------------------------
(* The two evaluations of one mix *)

\* the optimizer's evaluation of a mix on the lot and code of the request
OptimizerEvaluation(mix) ==
  evaluateMix(mix, params.property.lotArea, params.property.lotWidth, params.property.lotDepth,
              getRCodeRules(params.property.rCode), Layout(params.property),
              Envelope(params.property))

\* the mix of target total t of the k-th definition
CatalogMix(k, t) == DeriveCounts(t, SCENARIO_DEFINITIONS[k].ratios)

\* the verdicts of the two evaluations agree on the trial of target total t
\* of the k-th definition, the lot-size check apart
SameVerdict(k, t) ==
  FullTrial(t, params.property.lotArea, params.property.lotWidth, params.property.lotDepth,
            getRCodeRules(params.property.rCode), SCENARIO_DEFINITIONS[k].ratios).passes
    <=> /\ OptimizerEvaluation(CatalogMix(k, t)).compliant
        /\ params.property.lotArea
             >= R_CODE_RULES[params.property.rCode].minLotSize
                  * OptimizerEvaluation(CatalogMix(k, t)).totalUnits

\* C24: the full-compliance evaluation of a mix by the scenario generator
\* equals the optimizer's evaluation of the same mix on the same lot and code:
\* the same totalGFA, totalFootprint and totalCoverage for every returned
\* scenario, and for every trial the same verdict, the scenario generator
\* adding the minimum-lot-size check alone
C24_SameEvaluation ==
  ScenariosDone =>
    /\ \A s \in Listed :
         /\ s.totalGFA = RoundDiv(OptimizerEvaluation(s.mix).totalGFA, 2)
         /\ s.totalFootprint = RoundDiv(OptimizerEvaluation(s.mix).totalFootprint, 2)
         /\ s.totalCoverage = RoundDiv(OptimizerEvaluation(s.mix).totalCoverage, 2)
    /\ \A k \in 1..Len(SCENARIO_DEFINITIONS), t \in 2..20 : SameVerdict(k, t)

---------------------------------------------------------------------------
(* One lot under two codes *)

\* the known code next below c in density
LowerCode(c) ==
  CASE c = "R30" -> "R20" [] c = "R40" -> "R30" [] c = "R60" -> "R40" [] c = "R80" -> "R60"

\* a call of optimizeYield has returned for a code that has a lower neighbour
HigherCodeDone == OptimizerDone /\ params.rCode # "R20"

\* what optimizeYield returns for the same lot under the next lower code
UnderLowerCode == optimizeYield([params EXCEPT !.rCode = LowerCode(params.rCode)])

\* the lot of the engine's tests
ReferenceLot ==
  params.lotArea = 800 /\ params.lotWidth = 20 /\ params.lotDepth = 40

---------------------------------------------------------------------------
(* The fallback of optimizeYield *)

\* the evaluation of one 2-bed unit on the lot of the running call
SingleTwoBed ==
  evaluateMix(Mix(1, 0, 0), params.lotArea, params.lotWidth, params.lotDepth,
              getRCodeRules(params.rCode), Layout(params), Envelope(params))

\* optimizeYield returns for a known code
OptimizerReturns == pc = "optimizeYield" /\ pc' = "done" /\ params.rCode \in KnownCodes

\* C26: for a known code the result of optimizeYield is not compliant exactly
\* when the loop ended without a best result and the fallback was taken, and
\* then its mix is one 2-bed unit; that mix is the first of the search space,
\* so while no best result exists after the first total, it is not compliant;
\* a result of more than one unit is compliant
C26_NonCompliantIffFallback ==
  /\ [](OptimizerDone =>
          /\ ~result.compliant => (result.mix = Mix(1, 0, 0) /\ result.totalUnits = 1)
          /\ result.totalUnits > 1 => result.compliant)
  /\ [](generateMixes(1, 0, Null)[1] = Mix(1, 0, 0))
  /\ []((pc = "optimizeYield" /\ totalUnits > 1 /\ ~Truthy(bestResult)) => ~SingleTwoBed.compliant)
  /\ [][OptimizerReturns => (~result'.compliant <=> ~Truthy(bestResult))]_vars

\* the fallback returned: one 2-bed unit over the plot ratio, not compliant
C26_Witness ==
  /\ OptimizerDone
  /\ ~result.compliant
  /\ result.mix = Mix(1, 0, 0)
  /\ ~result.compliance.plotRatio
  /\ totalUnits > 20

---------------------------------------------------------------------------
(* Site coverage and open space *)

\* the optimizer's evaluation of a mix on the lot and code of the call
EvaluationOf(m) ==
  evaluateMix(m, params.lotArea, params.lotWidth, params.lotDepth, getRCodeRules(params.rCode),
              Layout(params), Envelope(params))

\* the trial of target total t of the k-th definition on the lot and code of
\* the request
TrialOf(k, t) ==
  FullTrial(t, params.property.lotArea, params.property.lotWidth, params.property.lotDepth,
            getRCodeRules(params.property.rCode), SCENARIO_DEFINITIONS[k].ratios)

\* two ratios over one denominator whose sum is 1
SumToOne(r1, r2) == r1[2] = r2[2] /\ r1[1] + r2[1] = r1[2]

---------------------------------------------------------------------------
(* Compliance and revenue from one code to the next higher one *)

\* the optimizer's evaluation of a mix on the lot of the call under the next
\* lower code
LowerEvaluationOf(m) ==
  LET p == [params EXCEPT !.rCode = LowerCode(params.rCode)]
  IN  evaluateMix(m, p.lotArea, p.lotWidth, p.lotDepth, getRCodeRules(p.rCode),
                  Layout(p), Envelope(p))

\* the limits of code c are no tighter than those of the next lower code, and
\* no more visitor bays are required for any number of units
Loosens(c) ==
  /\ R_CODE_RULES[LowerCode(c)].maxPlotRatio <= R_CODE_RULES[c].maxPlotRatio
  /\ R_CODE_RULES[LowerCode(c)].maxSiteCoverage <= R_CODE_RULES[c].maxSiteCoverage
  /\ R_CODE_RULES[LowerCode(c)].minOpenSpace >= R_CODE_RULES[c].minOpenSpace
  /\ \A n \in 1..20 :
       calculateParkingRequirements(n, c).visitorBays
         <= calculateParkingRequirements(n, LowerCode(c)).visitorBays

\* C28: for one lot, every mix of the search space that is compliant under a
\* code is compliant under the next higher code (and so under every higher
\* one): the limits only loosen and the visitor bays of a unit count never
\* grow; and the estimatedRevenue of the optimizer's result under a code is at
\* least that of its result under the next lower code
C28_RevenueMonotone ==
  /\ \A c \in KnownCodes \ {"R20"} : Loosens(c)
  /\ HigherCodeDone =>
       /\ \A m \in SearchSpace : LowerEvaluationOf(m).compliant => EvaluationOf(m).compliant
       /\ UnderLowerCode.estimatedRevenue <= result.estimatedRevenue

\* a result under R80 of a mix that is not compliant under R60, with a
\* greater revenue than the compliant result under R60
C28_Witness ==
  /\ HigherCodeDone
  /\ params.rCode = "R80"
  /\ result.compliant
  /\ UnderLowerCode.compliant
  /\ ~LowerEvaluationOf(result.mix).compliant
  /\ UnderLowerCode.estimatedRevenue < result.estimatedRevenue

---------------------------------------------------------------------------
(* Prices and the choice of configurations *)

\* a list of scenarios with the estimatedGRV of each blanked
WithoutRevenue(list) == [i \in 1..Len(list) |-> [list[i] EXCEPT !.estimatedGRV = 0]]

\* a call of the scenario generator has returned, and the caller holds the
\* result of an earlier call for the same lot and code
SamePropertyAgain ==
  /\ pc = "done"
  /\ op = "generateMixedScenarios"
  /\ prev.kind = "call"
  /\ prev.op = op
  /\ prev.params.property = params.property

\* C29: two calls of generateMixedScenarios for the same lot and code, with
\* whatever market data, return the same list of scenarios (the same names,
\* mixes, totalUnits, totalGFA, utilization and compliance values) up to the
\* estimatedGRV; and a call of optimizeYield has no price among its inputs
C29_PricesDoNotChoose ==
  /\ SamePropertyAgain => WithoutRevenue(prev.result.list) = WithoutRevenue(result.list)
  /\ (pc # "idle" /\ op = "optimizeYield")
       => DOMAIN params = {"lotArea", "lotWidth", "lotDepth", "rCode"}

\* two calls with different market data whose lists are not empty and differ
\* in an estimatedGRV
C29_Witness ==
  /\ SamePropertyAgain
  /\ prev.params.marketData # params.marketData
  /\ prev.params.marketData # Null
  /\ params.marketData # Null
  /\ Len(result.list) = 7
  /\ \E i \in 1..Len(result.list) :
       prev.result.list[i].estimatedGRV # result.list[i].estimatedGRV

---------------------------------------------------------------------------
(* The actual total of a trial *)

\* the sum of the counts of a mix
UnitsOf(mix) == mix["2bed"] + mix["3bed"] + mix["4bed"]

\* the types of the definition being searched that the rounding and the
\* remainder leave without a unit
LeftWithout(T) ==
  {t \in TypeSet : SearchedRatios[t] > 0 /\ RawCount(T, SearchedRatios, t) = 0}

\* a trial of the full-compliance search for a known code is about to be made
FullSearching ==
  pc = "calculateMixedConfig" /\ totalTarget <= 20 /\ params.property.rCode \in KnownCodes

\* what the trial of the target total in turn derives and evaluates
TrialInTurn ==
  LET T == totalTarget
      counts == DeriveCounts(T, SearchedRatios)
      actual == UnitsOf(counts)
      trial == FullTrialAt(T)
      p == params.property
  IN  /\ T \in 2..20
      /\ \A t \in TypeSet :
           /\ counts[t] \in Nat
           /\ SearchedRatios[t] > 0 => (RawCount(T, SearchedRatios, t) >= 0 /\ counts[t] >= 1)
           /\ SearchedRatios[t] = 0 => counts[t] = 0
      /\ actual >= T
      /\ actual = T + Cardinality(LeftWithout(T))
      /\ trial.config.counts = counts
      /\ trial.config.totalUnits = actual
      /\ trial.minLotSizeOk <=> p.lotArea >= R_CODE_RULES[p.rCode].minLotSize * actual
      /\ trial.config.compliance.lotSizePerUnit = RoundDiv(p.lotArea, actual)
      /\ trial.config.infrastructure
           = calculateInfrastructureAreaService(actual,
               determineSiteLayoutService(p.lotWidth, p.lotDepth))
      /\ trial.config.parking = calculateParkingRequirements(actual, p.rCode)

\* C30: for every definition and every target total T from 2 to 20 the
\* counts are non-negative integers, the remainder of the last type included,
\* at least 1 for every nonzero-ratio type and 0 for the others; the actual
\* total is T plus one unit for every type raised from 0 to 1; totalUnits, the
\* lot-size check, the infrastructure and the parking are those of the actual
\* total; and every returned scenario has totalUnits equal to the sum of its
\* mix, from 2 to 20, with at least two types present
C30_ActualTotal ==
  /\ FullSearching => TrialInTurn
  /\ ScenariosDone =>
       \A s \in Listed :
         /\ s.totalUnits = UnitsOf(s.mix)
         /\ s.totalUnits \in 2..20
         /\ Cardinality({t \in TypeSet : s.mix[t] > 0}) >= 2

\* the trial of T = 2 of a definition of three types was kept: one unit of
\* each type, 3 units in all
C30_Witness ==
  /\ pc = "calculateMixedConfig"
  /\ totalTarget = 3
  /\ params.property.rCode \in KnownCodes
  /\ bestConfig # Null
  /\ bestConfig.counts = Mix(1, 1, 1)
  /\ bestConfig.totalUnits = 3
  /\ LeftWithout(2) # {}

====
